---- MODULE Spec2Model ----
(***************************************************************************)
(* Savings ledger aggregation of FinancePlayground.                        *)
(*                                                                         *)
(* AnalyticsGenerator.calculate_savings_metrics (src/src/Process.py) walks *)
(* the months of the savings log in ascending order and keeps three        *)
(* running totals; ChartFactory.create_savings_overview_area               *)
(* (src/src/dashboard/charts.py) keeps one running balance per savings     *)
(* category.  Monetary values are modelled as exact integer amounts (the   *)
(* rounding of Float64 sums is not modelled), month keys as sequences of   *)
(* character codes compared as Python compares str, and the categories of  *)
(* the chart as a set (the order of its traces is not modelled).           *)
(***************************************************************************)
EXTENDS Integers, Sequences, FiniteSets, TLC

(***************************************************************************)
(* Bounds of the exploration and the input alphabet.                       *)
(***************************************************************************)
MaxLen == 2

Dates ==
    { [year |-> 2023, month |-> 12],
      [year |-> 2024, month |-> 1],
      [year |-> 2024, month |-> 2] }

\* The (category, category type) pairs of the ledger: "Vacation" is used both
\* as an allocation and as a savings category, "Spesa" is a tag the engine does
\* not know.
Accounts ==
    { [Category |-> "Vacation",  CategoryType |-> "Accantonamento"],
      [Category |-> "Vacation",  CategoryType |-> "Risparmio"],
      [Category |-> "General",   CategoryType |-> "Risparmio"],
      [Category |-> "Groceries", CategoryType |-> "Spesa"] }

Values == {-1, 0, 2}

SavingsRecord ==
    { [Date |-> d, Category |-> a.Category, CategoryType |-> a.CategoryType,
       Value |-> v] : d \in Dates, a \in Accounts, v \in Values }

(***************************************************************************)
(* State.                                                                  *)
(***************************************************************************)
VARIABLES
    df_savings,        \* the savings log handed to the engine
    pc,                \* "loaded", "returned", "charted"
    total_savings,     \* the running totals as the last call left them
    total_allocated,
    total_spent,
    savings_metrics,   \* the table the last call returned
    monthly_balances,  \* create_savings_overview_area: month -> category -> balance
    last_edit,         \* how the caller obtained the current log from the one before
    prev_metrics,      \* table and balances computed from the log before
    prev_balances,
    metrics_columns,   \* the columns of the table the last call returned
    raw_savings,       \* the renamed savings frame handed to validate_savings
    df_validated,      \* what validate_savings returned: the frame and
    errors,            \*   the list of validation errors
    raised,            \* the exception that left process_savings_data, if any
    config,            \* Config._config: the nested configuration
    got,               \* the last call of Config.get and its outcome
    data,              \* the raw sheet handed to _process_sheet_data
    valid_rows,        \* the rows _get_valid_rows kept
    skipped_rows,      \* DataWrangler.skipped_rows
    sheet_df,          \* the frame _process_sheet_data returned
    sheet_error,       \* the exception _process_sheet_data raised, if any
    logging,           \* the loggers of the logging module, by name
    log_call,          \* the last logging call, its handler, the handlers it found
    expenses,          \* the expense table handed to _aggregate_expenses
    aggregated,        \* the table _aggregate_expenses returned, or its exception
    sources,           \* what load_data finds: the Numbers file, the report, the caches
    raw_dfs,           \* what load_data returned, or the exception it raised
    stages,            \* what each stage of main does in this run: completes or raises
    exit,              \* the exit code main returned and the stages that raised
    finance,           \* FinanceDashboard: df_spese, df_entrate and the date range asked for
    monthly_summary,   \* what _calculate_monthly_summary returned, or its exception
    document,          \* the Numbers document load_updated_file found at its last call
    load_call,         \* the last call of load_updated_file: what it raised and skipped
    numbers,           \* the sheets of the document and numbers_sheet_mappings
    extracted,         \* what _extract_dataframes stored, skipped and raised
    set_call,          \* the last call of Config.set: its key, its value and what it raised
    selection,         \* the monthly datasets of the loader and the selected month range
    savings_rate       \* what create_monthly_savings_rate was given and computed

vars ==
    << df_savings, pc, total_savings, total_allocated, total_spent, savings_metrics,
       monthly_balances, last_edit, prev_metrics, prev_balances, metrics_columns,
       raw_savings, df_validated, errors, raised, config, got,
       data, valid_rows, skipped_rows, sheet_df, sheet_error,
       logging, log_call,
       expenses, aggregated,
       sources, raw_dfs,
       stages, exit,
       finance, monthly_summary,
       document, load_call,
       numbers, extracted,
       set_call,
       selection, savings_rate >>

totals == << total_savings, total_allocated, total_spent >>

history == << last_edit, prev_metrics, prev_balances >>

ingest == << raw_savings, df_validated, errors, raised >>

settings == << config, got >>

sheets == << data, valid_rows, skipped_rows, sheet_df, sheet_error >>

logs == << logging, log_call >>

ledger ==
    << df_savings, totals, savings_metrics, monthly_balances, metrics_columns,
       history >>

expense_dashboard == << expenses, aggregated >>

loading == << sources, raw_dfs >>

entry_point == << stages, exit >>

finance_dashboard == << finance, monthly_summary >>

reloading == << document, load_call >>

extraction == << numbers, extracted >>

updates == << set_call >>

rate_chart == << selection, savings_rate >>

\* The state of the components around the ledger and the sheets.
application == << logs, expense_dashboard, loading, entry_point, finance_dashboard, reloading, extraction, updates, rate_chart >>

(***************************************************************************)
(* Text helpers: strftime("%Y-%m") and Python's ordering of str.           *)
(***************************************************************************)
Digit(n) == 48 + n

StrFTime(d) ==
    << Digit(d.year \div 1000), Digit((d.year \div 100) % 10),
       Digit((d.year \div 10) % 10), Digit(d.year % 10),
       45,
       Digit(d.month \div 10), Digit(d.month % 10) >>

RECURSIVE LexLess(_, _)
LexLess(a, b) ==
    IF a = <<>> THEN b # <<>>
    ELSE IF b = <<>> THEN FALSE
    ELSE IF Head(a) # Head(b) THEN Head(a) < Head(b)
    ELSE LexLess(Tail(a), Tail(b))

RECURSIVE Sorted(_)
Sorted(S) ==
    IF S = {} THEN <<>>
    ELSE LET least == CHOOSE x \in S : \A y \in S : x = y \/ LexLess(x, y)
         IN  <<least>> \o Sorted(S \ {least})

Unique(col) == {col[k] : k \in DOMAIN col}

Abs(x) == IF x < 0 THEN -x ELSE x

Column(df, name) == [k \in DOMAIN df |-> df[k][name]]

RECURSIVE Sum(_)
Sum(col) == IF col = <<>> THEN 0 ELSE Head(col) + Sum(Tail(col))

(***************************************************************************)
(* calculate_savings_metrics: the frame after the Month and AllocationType *)
(* columns are added, and the per-month quantities of the loop body.       *)
(***************************************************************************)
HasColumn(df, name) == df # <<>> /\ name \in DOMAIN df[1]

\* The Month column is added only when the frame does not carry one.
WithMonth(df) ==
    [k \in DOMAIN df |->
        [Date |-> df[k].Date, Category |-> df[k].Category,
         CategoryType |-> df[k].CategoryType, Value |-> df[k].Value,
         Month |-> IF HasColumn(df, "Month") THEN df[k].Month
                   ELSE StrFTime(df[k].Date)]]

AllocationType(row) ==
    IF row.CategoryType = "Accantonamento" THEN "Allocation" ELSE "Savings"

DfProcessed(df) ==
    LET dm == WithMonth(df)
    IN  [k \in DOMAIN dm |->
            [Date |-> dm[k].Date, Category |-> dm[k].Category,
             CategoryType |-> dm[k].CategoryType, Value |-> dm[k].Value,
             Month |-> dm[k].Month, AllocationType |-> AllocationType(dm[k])]]

RECURSIVE InOrderOfAppearance(_)
InOrderOfAppearance(col) ==
    IF col = <<>> THEN <<>>
    ELSE LET rest == InOrderOfAppearance(SubSeq(col, 1, Len(col) - 1))
             last == col[Len(col)]
         IN  IF \E k \in DOMAIN rest : rest[k] = last THEN rest ELSE Append(rest, last)

\* Variants of AllMonths: unique() without sorted(), and sorted() without unique().
\* The months walked from the latest to the earliest.
AllMonthsDescending(df) ==
    LET ascending == Sorted(Unique(Column(df, "Month")))
    IN  [k \in DOMAIN ascending |-> ascending[Len(ascending) + 1 - k]]

AllMonthsUnsorted(df) == InOrderOfAppearance(Column(df, "Month"))

AllMonthsWithDuplicates(df) ==
    LET months == Sorted(Unique(Column(df, "Month")))
        Count(m) == Cardinality({k \in DOMAIN df : df[k].Month = m})
        RECURSIVE Repeat(_, _)
        Repeat(m, n) == IF n = 0 THEN <<>> ELSE <<m>> \o Repeat(m, n - 1)
        RECURSIVE Expand(_)
        Expand(ms) == IF ms = <<>> THEN <<>>
                      ELSE Repeat(Head(ms), Count(Head(ms))) \o Expand(Tail(ms))
    IN  Expand(months)

AllMonths(df) == Sorted(Unique(Column(df, "Month")))

MonthData(df, month) ==
    LET InMonth(r) == r.Month = month IN SelectSeq(df, InMonth)

\* Variant of MonthSavings that drops the Value > 0 condition.
MonthSavingsAnySign(month_data) ==
    LET Keep(r) == r.CategoryType = "Risparmio"
    IN  Sum(Column(SelectSeq(month_data, Keep), "Value"))

MonthSavings(month_data) ==
    LET Keep(r) == r.CategoryType = "Risparmio" /\ r.Value > 0
    IN  Sum(Column(SelectSeq(month_data, Keep), "Value"))

MonthAllocated(month_data) ==
    LET Keep(r) == r.CategoryType = "Accantonamento" /\ r.Value > 0
    IN  Sum(Column(SelectSeq(month_data, Keep), "Value"))

\* Variant of MonthAllocatedWithdrawals that omits abs().
MonthAllocatedWithdrawalsSigned(month_data) ==
    LET Keep(r) == r.CategoryType = "Accantonamento" /\ r.Value < 0
    IN  Sum(Column(SelectSeq(month_data, Keep), "Value"))

MonthAllocatedWithdrawals(month_data) ==
    LET Keep(r) == r.CategoryType = "Accantonamento" /\ r.Value < 0
    IN  Abs(Sum(Column(SelectSeq(month_data, Keep), "Value")))

\* Variants of MonthSpent: abs() omitted; every outflow counted, allocation
\* withdrawals included; only outflows of the savings label counted.
MonthSpentSigned(month_data) ==
    LET Keep(r) == r.CategoryType # "Accantonamento" /\ r.Value < 0
    IN  Sum(Column(SelectSeq(month_data, Keep), "Value"))

MonthSpentEveryOutflow(month_data) ==
    LET Keep(r) == r.Value < 0
    IN  Abs(Sum(Column(SelectSeq(month_data, Keep), "Value")))

MonthSpentSavingsOnly(month_data) ==
    LET Keep(r) == r.CategoryType = "Risparmio" /\ r.Value < 0
    IN  Abs(Sum(Column(SelectSeq(month_data, Keep), "Value")))

MonthSpent(month_data) ==
    LET Keep(r) == r.CategoryType # "Accantonamento" /\ r.Value < 0
    IN  Abs(Sum(Column(SelectSeq(month_data, Keep), "Value")))

(***************************************************************************)
(* create_savings_overview_area: end-of-month balance of every savings     *)
(* category, accumulated month by month.                                   *)
(***************************************************************************)
DfRisparmio(df) ==
    LET Keep(r) == r.CategoryType = "Risparmio" IN SelectSeq(WithMonth(df), Keep)

\* Variant of NetChange that omits the filter on the category.
NetChangeWholeMonth(month_data, category) ==
    IF Len(month_data) > 0 THEN Sum(Column(month_data, "Value")) ELSE 0

\* A category without rows in the month keeps its balance (len(cat_data) > 0).
NetChange(month_data, category) ==
    LET Keep(r)  == r.Category = category
        cat_data == SelectSeq(month_data, Keep)
    IN  IF Len(cat_data) > 0 THEN Sum(Column(cat_data, "Value")) ELSE 0

\* Variant of BalancesLoop that starts every month from zero balances.
RECURSIVE BalancesLoopResetEachMonth(_, _, _, _, _)
BalancesLoopResetEachMonth(df, months, categories, category_balances, balances) ==
    IF months = <<>> THEN balances
    ELSE LET month      == Head(months)
             month_data == MonthData(df, month)
             updated    == [c \in categories |-> NetChange(month_data, c)]
         IN  BalancesLoopResetEachMonth(df, Tail(months), categories, updated,
                          [m \in DOMAIN balances \cup {month} |->
                              IF m = month THEN updated ELSE balances[m]])

RECURSIVE BalancesLoop(_, _, _, _, _)
BalancesLoop(df, months, categories, category_balances, balances) ==
    IF months = <<>> THEN balances
    ELSE LET month      == Head(months)
             month_data == MonthData(df, month)
             updated    == [c \in categories |->
                               category_balances[c] + NetChange(month_data, c)]
         IN  BalancesLoop(df, Tail(months), categories, updated,
                          [m \in DOMAIN balances \cup {month} |->
                              IF m = month THEN updated ELSE balances[m]])

MonthlyBalances(df) ==
    LET df_risparmio == DfRisparmio(df)
        months       == Sorted(Unique(Column(df_risparmio, "Month")))
        categories   == Unique(Column(df_risparmio, "Category"))
    IN  BalancesLoop(df_risparmio, months, categories,
                     [c \in categories |-> 0], <<>>)

(***************************************************************************)
(* The month loop of calculate_savings_metrics: one iteration per month of *)
(* all_months, in order, each advancing the three running totals and       *)
(* appending one row.                                                      *)
(***************************************************************************)
\* Variant of RunningTotals that carries the totals of the call before.
RunningTotalsKept ==
    [total_savings |-> total_savings, total_allocated |-> total_allocated,
     total_spent |-> total_spent]

RunningTotals == [total_savings |-> 0, total_allocated |-> 0, total_spent |-> 0]

\* Variant of MonthLoop that assigns each month's amounts instead of adding them.
RECURSIVE MonthLoopNotCumulative(_, _, _, _)
MonthLoopNotCumulative(df_processed, months, running, metrics) ==
    IF months = <<>> THEN [totals |-> running, metrics |-> metrics]
    ELSE LET month      == Head(months)
             month_data == MonthData(df_processed, month)
             saved      == MonthSavings(month_data)
             allocated  == MonthAllocated(month_data)
                              - MonthAllocatedWithdrawals(month_data)
             spent      == MonthSpent(month_data)
         IN  MonthLoopNotCumulative(df_processed, Tail(months),
                       [total_savings |-> saved, total_allocated |-> allocated,
                        total_spent |-> spent],
                       Append(metrics,
                              [Month |-> month, TotalSavings |-> saved,
                               TotalAllocated |-> allocated, TotalSpent |-> spent]))

RECURSIVE MonthLoop(_, _, _, _)
MonthLoop(df_processed, months, running, metrics) ==
    IF months = <<>> THEN [totals |-> running, metrics |-> metrics]
    ELSE LET month      == Head(months)
             month_data == MonthData(df_processed, month)
             saved      == running.total_savings + MonthSavings(month_data)
             allocated  == running.total_allocated + MonthAllocated(month_data)
                              - MonthAllocatedWithdrawals(month_data)
             spent      == running.total_spent + MonthSpent(month_data)
         IN  MonthLoop(df_processed, Tail(months),
                       [total_savings |-> saved, total_allocated |-> allocated,
                        total_spent |-> spent],
                       Append(metrics,
                              [Month |-> month, TotalSavings |-> saved,
                               TotalAllocated |-> allocated, TotalSpent |-> spent]))

NoRecord == [Date |-> [year |-> 0, month |-> 0], Category |-> "", CategoryType |-> "",
             Value |-> 0]

\* The schema of the table returned for an empty log.
EmptyMetricsSchema == {"Month", "TotalSavings", "TotalAllocated", "TotalSpent"}

\* pl.DataFrame(): a frame without columns and without rows.
EmptyFrame == [columns |-> {}, rows |-> <<>>]

\* Values of the configuration: a leaf, a nested mapping, or None.
Leaf(v) == [kind |-> "leaf", value |-> v, items |-> <<>>]

Mapping(items) == [kind |-> "dict", value |-> 0, items |-> items]

None == [kind |-> "None", value |-> 0, items |-> <<>>]

NoCall == [called |-> FALSE, key |-> <<>>, default |-> None, raised |-> "none",
           value |-> None]

\* No configuration is loaded and Config.get has not been called.
NoSettings ==
    /\ config = Mapping(<<>>)
    /\ got = NoCall

\* No frame and no exception.
NoFrame == [columns |-> <<>>, rows |-> <<>>]

NoError == [type |-> "none", message |-> ""]

\* No sheet has been handed to the DataWrangler.
NoSheet ==
    /\ data = <<>>
    /\ valid_rows = <<>>
    /\ skipped_rows = <<>>
    /\ sheet_df = NoFrame
    /\ sheet_error = NoError

\* No savings frame has been handed to process_savings_data.
NothingIngested ==
    /\ raw_savings = <<>>
    /\ df_validated = EmptyFrame
    /\ errors = <<>>
    /\ raised = "none"

\* The ledger is empty and no handler has run.
NoLedger ==
    /\ df_savings = <<>>
    /\ total_savings = 0
    /\ total_allocated = 0
    /\ total_spent = 0
    /\ savings_metrics = <<>>
    /\ monthly_balances = <<>>
    /\ metrics_columns = {}
    /\ last_edit = [kind |-> "none", record |-> NoRecord]
    /\ prev_metrics = <<>>
    /\ prev_balances = <<>>

\* The names the application asks loggers for.
LoggerNames == {"finance_dashboard", "example_logger"}

\* logging.NOTSET, logging.DEBUG, logging.INFO.
NOTSET == 0

DEBUG == 10

INFO == 20

\* A logger as logging.getLogger creates it: no handler, propagating.
NewLogger == [handlers |-> <<>>, propagate |-> TRUE, level |-> NOTSET]

NoHandler == [class |-> "none", id |-> 0]

\* No logger has been asked for and no call has been made.
NoLogs ==
    /\ logging = [name \in LoggerNames |-> NewLogger]
    /\ log_call = [op |-> "none", name |-> "", handler |-> NoHandler,
                   raised |-> "none", before |-> 0, count |-> 0]

\* _aggregate_expenses has not been called.
NoTable == [frequency |-> "", raised |-> "none", columns |-> <<>>, rows |-> <<>>]

\* No expense table has been aggregated.
NoExpenses ==
    /\ expenses = <<>>
    /\ aggregated = NoTable

\* The three frames of the application.
FrameNames == {"expenses", "income", "savings"}

NoSources ==
    [numbers |-> "none", skipped |-> FALSE, report |-> "none", raw_paths |-> "none",
     cache |-> [name \in FrameNames |-> "none"]]

NotLoaded == [called |-> FALSE, raised |-> "none", frames |-> <<>>]

\* load_data has not been called.
NoLoading ==
    /\ sources = NoSources
    /\ raw_dfs = NotLoaded

\* The stages of the workflow of main, in the order it runs them.
StageNames == << "configuration", "components", "load_data", "process_data",
                "generate_all_datasets", "dashboard" >>

NotStarted == [returned |-> FALSE, code |-> 0, completed |-> {}, raised |-> {}]

\* main has not been called.
NoRun ==
    /\ stages = [entry |-> "none", outcome |-> << >>]
    /\ exit = NotStarted

NoSummary == [called |-> FALSE, raised |-> "none", rows |-> <<>>]

\* No FinanceDashboard has been built.
NoFinance ==
    /\ finance = [df_spese |-> <<>>, df_entrate |-> <<>>, start_date |-> NoRecord.Date,
                  end_date |-> NoRecord.Date]
    /\ monthly_summary = NoSummary

NoDocument == <<>>

NoLoadCall == [count |-> 0, raised |-> "none", skipped |-> <<>>, dfs |-> {}]

\* load_updated_file has not been called.
NoReloading ==
    /\ document = NoDocument
    /\ load_call = NoLoadCall

NotExtracted ==
    [called |-> FALSE, raised |-> "none", dfs |-> <<>>, processed |-> <<>>,
     all_skipped_rows |-> <<>>]

\* _extract_dataframes of data_wrangler.py has not been called.
NoExtraction ==
    /\ numbers = [sheets |-> <<>>, sheet_mappings |-> <<>>]
    /\ extracted = NotExtracted

NotSet == [called |-> FALSE, key |-> <<>>, value |-> None, raised |-> "none"]

\* Config.set has not been called.
NoSet == set_call = NotSet

NoFigure ==
    [called |-> FALSE, title |-> "", df_savings_metrics |-> <<>>, months |-> <<>>,
     monthly_savings_totals |-> <<>>]

\* update_dashboard has not drawn the savings rate.
NoRate ==
    /\ selection = [monthly_summary |-> <<>>, savings_metrics |-> <<>>,
                    start_month |-> 0, end_month |-> 0]
    /\ savings_rate = NoFigure

\* The components around the ledger and the sheets are untouched.
NoApplication ==
    /\ NoLogs
    /\ NoExpenses
    /\ NoLoading
    /\ NoRun
    /\ NoFinance
    /\ NoReloading
    /\ NoExtraction
    /\ NoSet
    /\ NoRate

Init ==
    /\ df_savings = <<>>
    /\ pc = "loaded"
    /\ total_savings = 0
    /\ total_allocated = 0
    /\ total_spent = 0
    /\ savings_metrics = <<>>
    /\ monthly_balances = <<>>
    /\ last_edit = [kind |-> "none", record |-> NoRecord]
    /\ prev_metrics = <<>>
    /\ prev_balances = <<>>
    /\ metrics_columns = {}
    /\ NoApplication
    /\ NothingIngested
    /\ NoSettings
    /\ NoSheet

(***************************************************************************)
(* The two handlers, run one after the other on the log the caller loaded. *)
(* Each local is bound to its value once, as an assignment of the code is. *)
(***************************************************************************)
CalculateSavingsMetrics ==
    /\ pc = "loaded"
    /\ IF Len(df_savings) = 0
       THEN /\ savings_metrics' = <<>>
            /\ metrics_columns' = EmptyMetricsSchema
            /\ UNCHANGED totals
       ELSE \E df_processed \in {DfProcessed(df_savings)} :
            \E all_months \in {AllMonths(df_processed)} :
            \E out \in {MonthLoop(df_processed, all_months, RunningTotals, <<>>)} :
                /\ total_savings' = out.totals.total_savings
                /\ total_allocated' = out.totals.total_allocated
                /\ total_spent' = out.totals.total_spent
                /\ savings_metrics' = out.metrics
                /\ metrics_columns' = DOMAIN out.metrics[1]
    /\ pc' = "returned"
    /\ UNCHANGED << df_savings, monthly_balances, history, ingest, settings, sheets,
                    application >>

CreateSavingsOverviewArea ==
    /\ pc = "returned"
    /\ \E balances \in {MonthlyBalances(df_savings)} : monthly_balances' = balances
    /\ pc' = "charted"
    /\ UNCHANGED << df_savings, totals, savings_metrics, metrics_columns, history,
                    ingest, settings, sheets,
                    application >>

(***************************************************************************)
(* The caller loads a log: the log of the run before with one record more, *)
(* with its records in another order, or unchanged.  It keeps what the run *)
(* before produced.                                                        *)
(***************************************************************************)
InsertAt(df, pos, t) == SubSeq(df, 1, pos - 1) \o <<t>> \o SubSeq(df, pos, Len(df))

Load(df, kind, t) ==
    /\ pc = "charted"
    /\ df_savings' = df
    /\ last_edit' = [kind |-> kind, record |-> t]
    /\ prev_metrics' = savings_metrics
    /\ prev_balances' = monthly_balances
    /\ pc' = "loaded"
    /\ UNCHANGED << totals, savings_metrics, monthly_balances, metrics_columns,
                    ingest, settings, sheets,
                    application >>

Insert ==
    /\ Len(df_savings) < MaxLen
    /\ \E t \in SavingsRecord, pos \in 1..(Len(df_savings) + 1) :
          Load(InsertAt(df_savings, pos, t), "insert", t)

Permute ==
    \E p \in Permutations(DOMAIN df_savings) :
        LET df == [k \in DOMAIN df_savings |-> df_savings[p[k]]]
        IN  df # df_savings /\ Load(df, "permute", NoRecord)

Reload ==
    /\ pc = "charted"
    /\ Load(df_savings, "reload", NoRecord)

Next ==
    \/ CalculateSavingsMetrics
    \/ CreateSavingsOverviewArea
    \/ Insert
    \/ Permute
    \/ Reload

Spec == Init /\ [][Next]_vars

(***************************************************************************)
(* The worked example of the specification: two months, four records.      *)
(***************************************************************************)
Jan == [year |-> 2024, month |-> 1]

Feb == [year |-> 2024, month |-> 2]

Scenario ==
    << [Date |-> Jan, Category |-> "Vacation",  CategoryType |-> "Accantonamento",
        Value |-> 100],
       [Date |-> Jan, Category |-> "Groceries", CategoryType |-> "Spesa",
        Value |-> -40],
       [Date |-> Feb, Category |-> "Vacation",  CategoryType |-> "Accantonamento",
        Value |-> -30],
       [Date |-> Feb, Category |-> "Vacation",  CategoryType |-> "Risparmio",
        Value |-> 20] >>

InitScenario ==
    /\ df_savings = Scenario
    /\ pc = "loaded"
    /\ total_savings = 0
    /\ total_allocated = 0
    /\ total_spent = 0
    /\ savings_metrics = <<>>
    /\ monthly_balances = <<>>
    /\ last_edit = [kind |-> "none", record |-> NoRecord]
    /\ prev_metrics = <<>>
    /\ prev_balances = <<>>
    /\ metrics_columns = {}
    /\ NoApplication
    /\ NothingIngested
    /\ NoSettings
    /\ NoSheet

NextScenario ==
    \/ CalculateSavingsMetrics
    \/ CreateSavingsOverviewArea
    \/ Permute
    \/ Reload

SpecScenario == InitScenario /\ [][NextScenario]_vars

(***************************************************************************)
(* A savings category that moves in January and March only, while another  *)
(* moves in February; the three amounts are drawn from GapValues.          *)
(***************************************************************************)
Mar == [year |-> 2024, month |-> 3]

GapValues == {-5, 10, 25}

GapLog(jan, feb, mar) ==
    << [Date |-> Jan, Category |-> "Vacation", CategoryType |-> "Risparmio",
        Value |-> jan],
       [Date |-> Feb, Category |-> "General",  CategoryType |-> "Risparmio",
        Value |-> feb],
       [Date |-> Mar, Category |-> "Vacation", CategoryType |-> "Risparmio",
        Value |-> mar] >>

InitGap ==
    /\ \E jan, feb, mar \in GapValues : df_savings = GapLog(jan, feb, mar)
    /\ pc = "loaded"
    /\ total_savings = 0
    /\ total_allocated = 0
    /\ total_spent = 0
    /\ savings_metrics = <<>>
    /\ monthly_balances = <<>>
    /\ last_edit = [kind |-> "none", record |-> NoRecord]
    /\ prev_metrics = <<>>
    /\ prev_balances = <<>>
    /\ metrics_columns = {}
    /\ NoApplication
    /\ NothingIngested
    /\ NoSettings
    /\ NoSheet

SpecGap == InitGap /\ [][NextScenario]_vars

(***************************************************************************)
(* SchemaValidator.validate_savings and Process.process_savings_data.  A   *)
(* cell of the frame is None or holds a value of the column's type; the    *)
(* Value column is numeric or text, never both.  Text is a sequence of     *)
(* character codes.                                                        *)
(***************************************************************************)
MaxRaw == 2

NoDate == [year |-> 0, month |-> 0]

DateCells == { [tag |-> "datetime", date |-> Jan], [tag |-> "None", date |-> NoDate] }

CategoryTypeCells ==
    { [tag |-> "str", str |-> "Risparmio"], [tag |-> "str", str |-> "Accantonamento"],
      [tag |-> "None", str |-> ""] }

\* 2.0, "2", "abc" and None.
ValueCells ==
    { [tag |-> "float", num |-> 2, text |-> <<>>],
      [tag |-> "str",   num |-> 0, text |-> <<50>>],
      [tag |-> "str",   num |-> 0, text |-> <<97, 98, 99>>],
      [tag |-> "None",  num |-> 0, text |-> <<>>] }

RawRows ==
    [Date : DateCells, Description : {"transfer"}, Category : {"Vacation"},
     CategoryType : CategoryTypeCells, Value : ValueCells]

\* The frames of at most MaxRaw rows whose Value column has one type.
RawFrames ==
    LET OneType(df) ==
            \A j, k \in DOMAIN df :
                \/ df[j].Value.tag = "None"
                \/ df[k].Value.tag = "None"
                \/ df[j].Value.tag = df[k].Value.tag
    IN  UNION { {df \in [1..n -> RawRows] : OneType(df)} : n \in 0..MaxRaw }

IsDigit(c) == c \in 48..57

IsNumericText(text) ==
    LET digits == IF text # <<>> /\ Head(text) \in {43, 45} THEN Tail(text) ELSE text
    IN  digits # <<>> /\ \A k \in DOMAIN digits : IsDigit(digits[k])

RECURSIVE DigitsValue(_)
DigitsValue(digits) ==
    IF digits = <<>> THEN 0
    ELSE 10 * DigitsValue(SubSeq(digits, 1, Len(digits) - 1))
            + (digits[Len(digits)] - 48)

TextValue(text) ==
    IF Head(text) = 45 THEN -DigitsValue(Tail(text))
    ELSE IF Head(text) = 43 THEN DigitsValue(Tail(text))
    ELSE DigitsValue(text)

\* float(row["Value"]): the number, or the exception float() raises.
Float(cell) ==
    IF cell.tag = "float" THEN [raised |-> "none", num |-> cell.num]
    ELSE IF cell.tag = "None" THEN [raised |-> "TypeError", num |-> 0]
    ELSE IF IsNumericText(cell.text) THEN [raised |-> "none", num |-> TextValue(cell.text)]
    ELSE [raised |-> "ValueError", num |-> 0]

\* The fields of SavingsRecord, the columns of a frame of validated records.
SavingsRecordFields == {"Date", "Description", "Category", "Value", "CategoryType"}

\* The fields pydantic rejects when SavingsRecord is constructed from the row.
InvalidFields(row) ==
    (IF row.Date.tag = "None" THEN {"Date"} ELSE {})
        \cup (IF row.CategoryType.tag = "None" THEN {"CategoryType"} ELSE {})

\* validated.dict()
Dict(row, value) ==
    [Date |-> row.Date.date, Description |-> row.Description,
     Category |-> row.Category, Value |-> value, CategoryType |-> row.CategoryType.str]

\* The loop over the rows.  The arguments of SavingsRecord(...) are evaluated
\* before pydantic validates them, and only pydantic.ValidationError is caught.
RECURSIVE ValidateRows(_, _, _)
ValidateRows(rows, validated_rows, errs) ==
    IF rows = <<>>
    THEN [raised |-> "none", validated_rows |-> validated_rows, errors |-> errs]
    ELSE LET row   == Head(rows)
             value == Float(row.Value)
         IN  IF value.raised # "none"
             THEN [raised |-> value.raised, validated_rows |-> validated_rows,
                   errors |-> errs]
             ELSE IF InvalidFields(row) # {}
             THEN ValidateRows(Tail(rows), validated_rows,
                               Append(errs, [error  |-> "ValidationError",
                                             fields |-> InvalidFields(row)]))
             ELSE ValidateRows(Tail(rows),
                               Append(validated_rows, Dict(row, value.num)), errs)

ValidateSavings(df) ==
    LET out == ValidateRows(df, <<>>, <<>>)
    IN  [raised |-> out.raised,
         frame  |-> IF out.validated_rows = <<>> THEN EmptyFrame
                    ELSE [columns |-> DOMAIN out.validated_rows[1],
                          rows    |-> out.validated_rows],
         errors |-> out.errors]

\* process_savings_data on the renamed frame: an exception of validate_savings
\* leaves it uncaught; otherwise the validated frame is the savings log.
ProcessSavingsData ==
    /\ pc = "raw"
    /\ \E out \in {ValidateSavings(raw_savings)} :
          IF out.raised # "none"
          THEN /\ raised' = out.raised
               /\ pc' = "failed"
               /\ UNCHANGED << df_validated, errors, df_savings >>
          ELSE /\ df_validated' = out.frame
               /\ errors' = out.errors
               /\ df_savings' = out.frame.rows
               /\ pc' = "loaded"
               /\ UNCHANGED raised
    /\ UNCHANGED << raw_savings, totals, savings_metrics, monthly_balances,
                    metrics_columns, history, settings, sheets,
                    application >>

InitIngest ==
    /\ raw_savings \in RawFrames
    /\ df_validated = EmptyFrame
    /\ errors = <<>>
    /\ raised = "none"
    /\ df_savings = <<>>
    /\ pc = "raw"
    /\ total_savings = 0
    /\ total_allocated = 0
    /\ total_spent = 0
    /\ savings_metrics = <<>>
    /\ monthly_balances = <<>>
    /\ metrics_columns = {}
    /\ NoApplication
    /\ last_edit = [kind |-> "none", record |-> NoRecord]
    /\ prev_metrics = <<>>
    /\ prev_balances = <<>>
    /\ NoSettings
    /\ NoSheet

NextIngest ==
    \/ ProcessSavingsData
    \/ CalculateSavingsMetrics
    \/ CreateSavingsOverviewArea

SpecIngest == InitIngest /\ [][NextIngest]_vars

(***************************************************************************)
(* A caller that hands over a frame which already carries a Month column,  *)
(* written without zero padding ("2024-9", "2024-10").                     *)
(***************************************************************************)
MaxKeyed == 2

Sep == [year |-> 2024, month |-> 9]

Oct == [year |-> 2024, month |-> 10]

UnpaddedKey(d) ==
    << Digit(d.year \div 1000), Digit((d.year \div 100) % 10),
       Digit((d.year \div 10) % 10), Digit(d.year % 10), 45 >>
       \o (IF d.month >= 10 THEN << Digit(d.month \div 10) >> ELSE << >>)
       \o << Digit(d.month % 10) >>

KeyedRecord ==
    { [Date |-> d, Category |-> a.Category, CategoryType |-> a.CategoryType,
       Value |-> v, Month |-> UnpaddedKey(d)] :
         d \in {Sep, Oct}, a \in Accounts, v \in {-1, 2} }

InitKeyed ==
    /\ df_savings \in UNION { [1..n -> KeyedRecord] : n \in 1..MaxKeyed }
    /\ pc = "loaded"
    /\ total_savings = 0
    /\ total_allocated = 0
    /\ total_spent = 0
    /\ savings_metrics = <<>>
    /\ monthly_balances = <<>>
    /\ metrics_columns = {}
    /\ NoApplication
    /\ last_edit = [kind |-> "none", record |-> NoRecord]
    /\ prev_metrics = <<>>
    /\ prev_balances = <<>>
    /\ NothingIngested
    /\ NoSettings
    /\ NoSheet

NextKeyed ==
    \/ CalculateSavingsMetrics
    \/ CreateSavingsOverviewArea

SpecKeyed == InitKeyed /\ [][NextKeyed]_vars

(***************************************************************************)
(* Config.get (src/src/Config.py).  A key is text, a sequence of character *)
(* codes: at most MaxDepth pieces "", "a" or "b" with "." between them;    *)
(* the names of the configuration are text too.                            *)
(***************************************************************************)
MaxDepth == 3

Dot == 46

Pieces == {<<>>, <<97>>, <<98>>}

RECURSIVE Join(_)
Join(path) ==
    IF Len(path) = 1 THEN path[1] ELSE path[1] \o << Dot >> \o Join(Tail(path))

Keys == { Join(pieces) : pieces \in UNION { [1..n -> Pieces] : n \in 1..MaxDepth } }

\* {a: 1}, {a: {b: 2, a: {b: 3}}, b: 4} and {b: {a: 6}, a: None}.
Configs ==
    { Mapping(<<97>> :> Leaf(1)),
      Mapping(<<97>> :> Mapping(<<98>> :> Leaf(2)
                                 @@ <<97>> :> Mapping(<<98>> :> Leaf(3)))
                @@ <<98>> :> Leaf(4)),
      Mapping(<<98>> :> Mapping(<<97>> :> Leaf(6)) @@ <<97>> :> None) }

Defaults == {None, Leaf(0)}

\* key.split(".")
RECURSIVE Split(_)
Split(key) ==
    IF \A k \in DOMAIN key : key[k] # Dot THEN << key >>
    ELSE LET dot == CHOOSE k \in DOMAIN key :
                        key[k] = Dot /\ \A j \in 1..(k - 1) : key[j] # Dot
         IN  << SubSeq(key, 1, dot - 1) >> \o Split(SubSeq(key, dot + 1, Len(key)))

\* for k in keys: value = value[k], with the exception a step raises.
RECURSIVE Descend(_, _)
Descend(value, keys) ==
    IF keys = <<>> THEN [raised |-> "none", value |-> value]
    ELSE IF value.kind # "dict" THEN [raised |-> "TypeError", value |-> None]
    ELSE IF Head(keys) \notin DOMAIN value.items
    THEN [raised |-> "KeyError", value |-> None]
    ELSE Descend(value.items[Head(keys)], Tail(keys))

\* Variant of ConfigGet that looks the whole key up at the top level.
ConfigGetWithoutSplit(cfg, key, default) ==
    IF key = <<>> THEN [raised |-> "none", value |-> default]
    ELSE LET out == Descend(cfg, << key >>)
         IN  IF out.raised \in {"KeyError", "TypeError"}
             THEN [raised |-> "none", value |-> default]
             ELSE out

ConfigGet(cfg, key, default) ==
    IF key = <<>> THEN [raised |-> "none", value |-> default]
    ELSE LET out == Descend(cfg, Split(key))
         IN  IF out.raised \in {"KeyError", "TypeError"}
             THEN [raised |-> "none", value |-> default]
             ELSE out

Get ==
    /\ \E key \in Keys, default \in Defaults :
          \E out \in {ConfigGet(config, key, default)} :
              got' = [called |-> TRUE, key |-> key, default |-> default,
                      raised |-> out.raised, value |-> out.value]
    /\ UNCHANGED << config, df_savings, pc, totals, savings_metrics, monthly_balances,
                    metrics_columns, history, ingest, sheets,
                    application >>

InitConfig ==
    /\ config \in Configs
    /\ got = NoCall
    /\ df_savings = <<>>
    /\ pc = "loaded"
    /\ total_savings = 0
    /\ total_allocated = 0
    /\ total_spent = 0
    /\ savings_metrics = <<>>
    /\ monthly_balances = <<>>
    /\ metrics_columns = {}
    /\ NoApplication
    /\ last_edit = [kind |-> "none", record |-> NoRecord]
    /\ prev_metrics = <<>>
    /\ prev_balances = <<>>
    /\ NothingIngested
    /\ NoSheet

NextConfig == Get

SpecConfig == InitConfig /\ [][NextConfig]_vars

(***************************************************************************)
(* DataWrangler._process_sheet_data (src/src/DataWrangler.py; the same     *)
(* steps are in DataFrameProcessor of src/src/data_wrangler.py).  A cell   *)
(* is None or text.  The type conversions of _clean_dataframe (dates,      *)
(* amounts) are left to the frame library and are not modelled: the frame  *)
(* holds the kept rows with empty text replaced by None.                   *)
(***************************************************************************)
MaxRows == 2

NoneCell == [tag |-> "None", text |-> ""]

Text(t) == [tag |-> "str", text |-> t]

Cells == {NoneCell, Text(""), Text("x")}

\* The header rows: none, invalid ones, and valid ones of one and two columns
\* with and without a date column.
Headers ==
    { <<>>,
      << NoneCell >>,
      << Text("Importo"), NoneCell >>,
      << Text("Data") >>,
      << Text("Importo") >>,
      << Text("Importo"), Text("Data") >>,
      << Text("Importo"), Text("Note") >> }

\* The data rows under a header: up to one cell more than it has columns.
RowsUnder(header) == UNION { [1..n -> Cells] : n \in 0..(Len(header) + 1) }

ValueError(message) == [type |-> "ValueError", message |-> message]

IsEmptyCell(cell) == cell.tag = "None" \/ cell = Text("")

\* Variant of ValidateColumns that turns a None header cell into "" instead
\* of rejecting the header.
ValidateColumnsNoneAsEmpty(columns) ==
    IF columns = <<>>
    THEN [error |-> ValueError("Invalid or missing column headers"), columns |-> <<>>]
    ELSE [error |-> NoError, columns |-> [k \in DOMAIN columns |-> columns[k].text]]

\* _validate_columns
ValidateColumns(columns) ==
    IF columns = <<>> \/ \E k \in DOMAIN columns : columns[k].tag = "None"
    THEN [error |-> ValueError("Invalid or missing column headers"), columns |-> <<>>]
    ELSE [error |-> NoError, columns |-> [k \in DOMAIN columns |-> columns[k].text]]

date_column_candidates == << "Data", "Date", "Datum" >>

\* The position (from 1) of the first candidate the header holds, 0 for None.
DateColumnIdx(columns) ==
    LET held == {c \in DOMAIN date_column_candidates :
                    \E k \in DOMAIN columns : columns[k] = date_column_candidates[c]}
    IN  IF held = {} THEN 0
        ELSE LET first == CHOOSE c \in held : \A other \in held : c <= other
             IN  CHOOSE k \in DOMAIN columns :
                    /\ columns[k] = date_column_candidates[first]
                    /\ \A j \in 1..(k - 1) : columns[j] # date_column_candidates[first]

\* Pad or truncate the row to the number of columns.
Fit(row, n) ==
    [k \in 1..n |-> IF k <= Len(row) THEN row[k] ELSE NoneCell]

NoneCount(row) == Cardinality({k \in DOMAIN row : IsEmptyCell(row[k])})

\* Variant of TooManyEmpty that also skips a row of which exactly half is empty.
TooManyEmptyFromHalf(none_count, columns) == 2 * none_count >= Len(columns)

TooManyEmpty(none_count, columns) == none_count > Len(columns) \div 2

\* The loop of _get_valid_rows; i is the index enumerate() gives the row.
RECURSIVE ValidRowsLoop(_, _, _, _, _)
ValidRowsLoop(rows, i, columns, valid, skipped) ==
    IF rows = <<>> THEN [valid_rows |-> valid, skipped_rows |-> skipped]
    ELSE LET row             == Head(rows)
             date_column_idx == DateColumnIdx(columns)
             fitted          == Fit(row, Len(columns))
         IN  IF \A k \in DOMAIN row : IsEmptyCell(row[k])
             THEN ValidRowsLoop(Tail(rows), i + 1, columns, valid, skipped)
             ELSE IF /\ date_column_idx # 0
                     /\ (Len(row) < date_column_idx \/ IsEmptyCell(row[date_column_idx]))
             THEN ValidRowsLoop(Tail(rows), i + 1, columns, valid, skipped)
             ELSE IF TooManyEmpty(NoneCount(fitted), columns)
             THEN ValidRowsLoop(Tail(rows), i + 1, columns, valid,
                                Append(skipped,
                                       [row_index  |-> i + 2, row_data |-> row,
                                        none_count |-> NoneCount(fitted)]))
             ELSE ValidRowsLoop(Tail(rows), i + 1, columns, Append(valid, fitted),
                                skipped)

\* _get_valid_rows: the rows it skipped are recorded even when it raises.
GetValidRows(rows, columns) ==
    LET out == ValidRowsLoop(rows, 0, columns, <<>>, <<>>)
    IN  [error |-> IF out.valid_rows = <<>>
                   THEN ValueError("No valid data rows after filtering")
                   ELSE NoError,
         valid_rows |-> out.valid_rows, skipped_rows |-> out.skipped_rows]

\* _replace_empty_strings on the frame built from the kept rows.
CleanDataframe(columns, rows) ==
    [columns |-> columns,
     rows    |-> [r \in DOMAIN rows |->
                    [k \in DOMAIN rows[r] |->
                        IF rows[r][k] = Text("") THEN NoneCell ELSE rows[r][k]]]]

\* _process_sheet_data: the exception it raises or the frame it returns, with
\* the rows kept and the rows recorded as skipped on the way.
ProcessSheet(sheet) ==
    IF sheet = <<>>
    THEN [error |-> ValueError("No data found"), valid_rows |-> <<>>,
          skipped_rows |-> <<>>, frame |-> NoFrame]
    ELSE LET header == ValidateColumns(sheet[1])
             rows   == Tail(sheet)
         IN  IF header.error # NoError
             THEN [error |-> header.error, valid_rows |-> <<>>, skipped_rows |-> <<>>,
                   frame |-> NoFrame]
             ELSE IF rows = <<>>
             THEN [error |-> ValueError("No data rows found"), valid_rows |-> <<>>,
                   skipped_rows |-> <<>>, frame |-> NoFrame]
             ELSE LET kept == GetValidRows(rows, header.columns)
                  IN  [error |-> kept.error, valid_rows |-> kept.valid_rows,
                       skipped_rows |-> kept.skipped_rows,
                       frame |-> IF kept.error # NoError THEN NoFrame
                                 ELSE CleanDataframe(header.columns, kept.valid_rows)]

ProcessSheetData ==
    /\ pc = "sheet"
    /\ \E out \in {ProcessSheet(data)} :
          /\ sheet_error' = out.error
          /\ valid_rows' = out.valid_rows
          /\ skipped_rows' = skipped_rows \o out.skipped_rows
          /\ sheet_df' = out.frame
    /\ pc' = "processed"
    /\ UNCHANGED << data, df_savings, totals, savings_metrics, monthly_balances,
                    metrics_columns, history, ingest, settings,
                    application >>

\* The sheet is empty, or a header row with at most MaxRows data rows.
InitSheet ==
    /\ \/ data = <<>>
       \/ \E header \in Headers, n \in 0..MaxRows :
             \E rows \in [1..n -> RowsUnder(header)] : data = << header >> \o rows
    /\ valid_rows = <<>>
    /\ skipped_rows = <<>>
    /\ sheet_df = NoFrame
    /\ sheet_error = NoError
    /\ pc = "sheet"
    /\ df_savings = <<>>
    /\ total_savings = 0
    /\ total_allocated = 0
    /\ total_spent = 0
    /\ savings_metrics = <<>>
    /\ monthly_balances = <<>>
    /\ metrics_columns = {}
    /\ NoApplication
    /\ last_edit = [kind |-> "none", record |-> NoRecord]
    /\ prev_metrics = <<>>
    /\ prev_balances = <<>>
    /\ NothingIngested
    /\ NoSettings

NextSheet == ProcessSheetData

SpecSheet == InitSheet /\ [][NextSheet]_vars

(***************************************************************************)
(* create_logger and get_logger (src/src/logger.py) on the loggers of the  *)
(* logging module.  A handler is an object: the count of the calls made so *)
(* far tells the handlers of different calls apart.  The file system is    *)
(* the environment: os.makedirs and logging.FileHandler either succeed or  *)
(* raise OSError.                                                          *)
(***************************************************************************)
MaxCalls == 3

Levels == {DEBUG, INFO}

Outcomes == {"ok", "makedirs", "FileHandler"}

FileHandler(id) == [class |-> "FileHandler", id |-> id]

NullHandler(id) == [class |-> "NullHandler", id |-> id]

\* The body of create_logger without handlers.clear(): what remains of it when
\* the handlers of the calls before are kept.
create_logger_keeping_handlers(logger, level, file_handler, outcome) ==
    IF outcome = "makedirs" THEN [logger |-> logger, raised |-> "OSError"]
    ELSE LET configured == [logger EXCEPT !.level = level]
         IN  IF outcome = "FileHandler"
             THEN [logger |-> configured, raised |-> "OSError"]
             ELSE [logger |-> [configured EXCEPT
                                  !.handlers = Append(@, file_handler),
                                  !.propagate = FALSE],
                   raised |-> "none"]

\* create_logger on the logger logging.getLogger(name) returned: the directory
\* is made, the handlers are cleared, the level is set, the file handler is
\* opened and added, propagation is switched off.
create_logger(logger, level, file_handler, outcome) ==
    IF outcome = "makedirs" THEN [logger |-> logger, raised |-> "OSError"]
    ELSE LET cleared == [logger EXCEPT !.handlers = <<>>, !.level = level]
         IN  IF outcome = "FileHandler"
             THEN [logger |-> cleared, raised |-> "OSError"]
             ELSE [logger |-> [cleared EXCEPT
                                  !.handlers = Append(@, file_handler),
                                  !.propagate = FALSE],
                   raised |-> "none"]

CreateLogger ==
    /\ log_call.count < MaxCalls
    /\ \E name \in LoggerNames, level \in Levels, outcome \in Outcomes :
          \E file_handler \in {FileHandler(log_call.count + 1)} :
          \E out \in {create_logger(logging[name], level, file_handler, outcome)} :
              /\ logging' = [logging EXCEPT ![name] = out.logger]
              /\ log_call' = [op |-> "create_logger", name |-> name,
                              handler |-> file_handler, raised |-> out.raised,
                              before |-> Len(logging[name].handlers),
                              count |-> log_call.count + 1]
    /\ UNCHANGED << pc, ledger, ingest, settings, sheets, expense_dashboard, loading,
                    entry_point, finance_dashboard, reloading, extraction, updates,
                    rate_chart >>

\* get_logger: the logger of that name, its level set when one is given.
GetLogger ==
    /\ log_call.count < MaxCalls
    /\ \E name \in LoggerNames, level \in Levels \cup {NOTSET} :
          /\ logging' = IF level = NOTSET THEN logging
                        ELSE [logging EXCEPT ![name].level = level]
          /\ log_call' = [op |-> "get_logger", name |-> name, handler |-> NoHandler,
                          raised |-> "none",
                          before |-> Len(logging[name].handlers),
                          count |-> log_call.count + 1]
    /\ UNCHANGED << pc, ledger, ingest, settings, sheets, expense_dashboard, loading,
                    entry_point, finance_dashboard, reloading, extraction, updates,
                    rate_chart >>

\* Other code adds a handler of its own to a logger (Logger.addHandler).
AddHandler ==
    /\ log_call.count < MaxCalls
    /\ \E name \in LoggerNames :
          \E handler \in {NullHandler(log_call.count + 1)} :
              /\ logging' = [logging EXCEPT ![name].handlers = Append(@, handler)]
              /\ log_call' = [op |-> "addHandler", name |-> name, handler |-> handler,
                              raised |-> "none",
                              before |-> Len(logging[name].handlers),
                              count |-> log_call.count + 1]
    /\ UNCHANGED << pc, ledger, ingest, settings, sheets, expense_dashboard, loading,
                    entry_point, finance_dashboard, reloading, extraction, updates,
                    rate_chart >>

InitLogger ==
    /\ NoLogs
    /\ pc = "loaded"
    /\ NoLedger
    /\ NothingIngested
    /\ NoSettings
    /\ NoSheet
    /\ NoExpenses
    /\ NoLoading
    /\ NoRun
    /\ NoFinance
    /\ NoReloading
    /\ NoExtraction
    /\ NoSet
    /\ NoRate

NextLogger ==
    \/ CreateLogger
    \/ GetLogger
    \/ AddHandler

SpecLogger == InitLogger /\ [][NextLogger]_vars

(***************************************************************************)
(* ExpenseDashboard._aggregate_expenses (src/src/ExpenseDashboard.py).     *)
(* Dates are days of the turn of 2023 to 2024; the Description column,     *)
(* which the aggregation drops, is left out.  The number dt.weekday() gives *)
(* a Monday is 0 or 1 with the version of polars, which the caller does    *)
(* not control.                                                            *)
(***************************************************************************)
MaxExpenses == 2

\* Sunday 7 and Monday 8 January, Wednesday 31 January, Thursday 1 February.
ExpenseDates ==
    { [year |-> 2024, month |-> 1, day |-> 7],
      [year |-> 2024, month |-> 1, day |-> 8],
      [year |-> 2024, month |-> 1, day |-> 31],
      [year |-> 2024, month |-> 2, day |-> 1] }

ExpenseCategories == {"Food", "Transport"}

ExpenseValues == {1, 2}

ExpenseRows ==
    { [Date |-> d, Category |-> c, Value |-> v] :
         d \in ExpenseDates, c \in ExpenseCategories, v \in ExpenseValues }

Frequencies == {"monthly", "weekly", "daily"}

\* The days from 31 December 2023 to a date of December 2023, January or
\* February 2024, and back.
Ordinal(d) ==
    IF d.year = 2023 THEN d.day - 31
    ELSE IF d.month = 1 THEN d.day ELSE 31 + d.day

DateOf(n) ==
    IF n <= 0 THEN [year |-> 2023, month |-> 12, day |-> 31 + n]
    ELSE IF n <= 31 THEN [year |-> 2024, month |-> 1, day |-> n]
    ELSE [year |-> 2024, month |-> 2, day |-> n - 31]

\* dt.weekday(): 1 January 2024 is a Monday.
Weekday(d, monday) == ((Ordinal(d) - 1) % 7) + monday

\* strftime("%Y-%m-%d").
StrFDate(d) == StrFTime(d) \o << 45, Digit(d.day \div 10), Digit(d.day % 10) >>

Period(d, frequency, monday) ==
    IF frequency = "monthly" THEN StrFTime(d)
    ELSE StrFDate(DateOf(Ordinal(d) - Weekday(d, monday)))

\* groupby(["Period", "Category"]).agg(sum of Value as Total): one row per
\* group, the key columns first.
Groups(df, frequency, monday) ==
    { [Period |-> Period(df[k].Date, frequency, monday),
       Category |-> df[k].Category] : k \in DOMAIN df }

GroupTotal(df, frequency, monday, g) ==
    LET members == SelectSeq(df, LAMBDA row :
                       /\ Period(row.Date, frequency, monday) = g.Period
                       /\ row.Category = g.Category)
    IN  Sum(Column(members, "Value"))

GroupRows(df, frequency, monday) ==
    { [Period |-> g.Period, Category |-> g.Category,
       Total |-> GroupTotal(df, frequency, monday, g)] :
         g \in Groups(df, frequency, monday) }

\* sort("Period") of the groups, which groupby leaves in no particular order:
\* every order of the rows that is ascending in Period.
SortByPeriod(rows) ==
    { s \in [1..Cardinality(rows) -> rows] :
         /\ \A i, j \in DOMAIN s : i # j => s[i] # s[j]
         /\ \A i, j \in DOMAIN s : i < j => ~LexLess(s[j].Period, s[i].Period) }

\* The tables _aggregate_expenses can return, or the exception it raises.
AggregateExpensesResults(df, frequency, monday) ==
    IF frequency \notin {"monthly", "weekly"}
    THEN { [frequency |-> frequency, raised |-> "ValueError", columns |-> <<>>,
            rows |-> <<>>] }
    ELSE { [frequency |-> frequency, raised |-> "none",
            columns |-> << "Period", "Category", "Total" >>, rows |-> s] :
              s \in SortByPeriod(GroupRows(df, frequency, monday)) }

AggregateExpenses ==
    /\ \E frequency \in Frequencies, monday \in {0, 1} :
          \E out \in AggregateExpensesResults(expenses, frequency, monday) :
              aggregated' = out
    /\ UNCHANGED << expenses, pc, ledger, ingest, settings, sheets, logs, loading,
                    entry_point, finance_dashboard, reloading, extraction, updates,
                    rate_chart >>

InitExpenses ==
    /\ expenses \in UNION { [1..n -> ExpenseRows] : n \in 1..MaxExpenses }
    /\ aggregated = NoTable
    /\ pc = "loaded"
    /\ NoLedger
    /\ NothingIngested
    /\ NoSettings
    /\ NoSheet
    /\ NoLogs
    /\ NoLoading
    /\ NoRun
    /\ NoFinance
    /\ NoReloading
    /\ NoExtraction
    /\ NoSet
    /\ NoRate

NextExpenses == AggregateExpenses

SpecExpenses == InitExpenses /\ [][NextExpenses]_vars

(***************************************************************************)
(* load_data and load_from_cache (src/src/main.py).  The files are the     *)
(* environment: the Numbers file loads or load_updated_file raises, with   *)
(* or without skipped rows; the report of the skipped rows is written or   *)
(* save_skipped_rows_report raises; raw_paths of the configuration is a    *)
(* mapping or not; each cache has no path configured, names a file that    *)
(* does not exist, a file read_csv cannot read, or a file it reads.        *)
(***************************************************************************)
CacheStates == {"no_path", "not_found", "unreadable", "readable"}

Sources ==
    { [numbers |-> n, skipped |-> s, report |-> r, raw_paths |-> p, cache |-> c] :
         n \in {"loads", "raises"}, s \in BOOLEAN, r \in {"written", "raises"},
         p \in {"dict", "other"}, c \in [FrameNames -> CacheStates] }

\* load_from_cache: the frame, or None.
LoadFromCache(state) == state = "readable"

\* The try block of load_data: the load and, when rows were skipped, the
\* report; an exception of either reaches the handler.
NumbersBlockRaises(src) ==
    \/ src.numbers = "raises"
    \/ src.skipped /\ src.report = "raises"

LoadData(src) ==
    IF ~NumbersBlockRaises(src)
    THEN [called |-> TRUE, raised |-> "none",
          frames |-> [name \in FrameNames |-> "numbers"]]
    ELSE IF src.raw_paths # "dict"
    THEN [called |-> TRUE, raised |-> "ValueError", frames |-> <<>>]
    ELSE LET loaded == { name \in FrameNames : LoadFromCache(src.cache[name]) }
         IN  IF "expenses" \notin loaded \/ "income" \notin loaded
             THEN [called |-> TRUE, raised |-> "ValueError", frames |-> <<>>]
             ELSE [called |-> TRUE, raised |-> "none",
                   frames |-> [name \in loaded |-> "cache"]]

CallLoadData ==
    /\ ~raw_dfs.called
    /\ raw_dfs' = LoadData(sources)
    /\ UNCHANGED << sources, pc, ledger, ingest, settings, sheets, logs,
                    expense_dashboard, entry_point, finance_dashboard, reloading,
                    extraction, updates, rate_chart >>

InitLoading ==
    /\ sources \in Sources
    /\ raw_dfs = NotLoaded
    /\ pc = "loaded"
    /\ NoLedger
    /\ NothingIngested
    /\ NoSettings
    /\ NoSheet
    /\ NoLogs
    /\ NoExpenses
    /\ NoRun
    /\ NoFinance
    /\ NoReloading
    /\ NoExtraction
    /\ NoSet
    /\ NoRate

NextLoading == CallLoadData

SpecLoading == InitLoading /\ [][NextLoading]_vars

(***************************************************************************)
(* main (src/src/main.py, and the older entry point src/main.py).  What a  *)
(* stage does is the environment's: it completes, or it raises; load_data  *)
(* and the configuration raise the exception main names in a handler of    *)
(* its own (ValueError, FileNotFoundError) or another one.                 *)
(***************************************************************************)
EntryPoints == {"src/src/main.py", "src/main.py"}

StageOutcomes(stage) ==
    IF stage = "configuration" THEN {"ok", "FileNotFoundError", "Exception"}
    ELSE IF stage = "load_data" THEN {"ok", "ValueError", "Exception"}
    ELSE {"ok", "Exception"}

Runs ==
    { [entry |-> e, outcome |-> o] :
         e \in EntryPoints,
         o \in { f \in [DOMAIN StageNames -> {"ok", "FileNotFoundError", "ValueError",
                                              "Exception"}] :
                    \A k \in DOMAIN StageNames : f[k] \in StageOutcomes(StageNames[k]) } }

\* The stages from the k-th on, run until one raises an exception that ends
\* main: every stage of src/main.py does, and every stage of src/src/main.py
\* but generate_all_datasets, whose exception is logged before main goes on to
\* the dashboard.
RECURSIVE RunStages(_, _, _, _)
RunStages(run, k, completed, failed) ==
    IF k > Len(StageNames)
    THEN [returned |-> TRUE, code |-> 0, completed |-> completed, raised |-> failed]
    ELSE LET stage == StageNames[k]
         IN  IF run.outcome[k] = "ok"
             THEN RunStages(run, k + 1, completed \cup {stage}, failed)
             ELSE IF run.entry = "src/src/main.py" /\ stage = "generate_all_datasets"
             THEN RunStages(run, k + 1, completed, failed \cup {stage})
             ELSE [returned |-> TRUE, code |-> 1, completed |-> completed,
                   raised |-> failed \cup {stage}]

Main(run) == RunStages(run, 1, {}, {})

CallMain ==
    /\ ~exit.returned
    /\ exit' = Main(stages)
    /\ UNCHANGED << stages, pc, ledger, ingest, settings, sheets, logs,
                    expense_dashboard, loading, finance_dashboard, reloading,
                    extraction, updates, rate_chart >>

InitRun ==
    /\ stages \in Runs
    /\ exit = NotStarted
    /\ pc = "loaded"
    /\ NoLedger
    /\ NothingIngested
    /\ NoSettings
    /\ NoSheet
    /\ NoLogs
    /\ NoExpenses
    /\ NoLoading
    /\ NoFinance
    /\ NoReloading
    /\ NoExtraction
    /\ NoSet
    /\ NoRate

NextRun == CallMain

SpecRun == InitRun /\ [][NextRun]_vars

(***************************************************************************)
(* FinanceDashboard._calculate_monthly_summary (src/src/FinanceDashboard.py). *)
(* Dates are months (the day is left out), a cell of the pivoted table is  *)
(* a number or null, and arithmetic on null gives null as in polars.       *)
(***************************************************************************)
MaxEntries == 2

SummaryDates == { [year |-> 2024, month |-> 1], [year |-> 2024, month |-> 2] }

SummaryValues == {2, 5}

Entries == { [Date |-> d, Value |-> v] : d \in SummaryDates, v \in SummaryValues }

DateIdx(d) == 12 * d.year + d.month

\* df.sort("Date") of __init__ has been applied.
SortedByDate(df) == \A i, j \in DOMAIN df : i < j => DateIdx(df[i].Date) <= DateIdx(df[j].Date)

EntryTables ==
    { df \in UNION { [1..n -> Entries] : n \in 0..MaxEntries } : SortedByDate(df) }

Null == [null |-> TRUE, value |-> 0]

Number(v) == [null |-> FALSE, value |-> v]

Minus(a, b) == IF a.null \/ b.null THEN Null ELSE Number(a.value - b.value)

FillNull(cell, v) == IF cell.null THEN Number(v) ELSE cell

\* The rows of the range, and the Total of a (Month, Type) group of
\* the pivoted table: null when the group has no row.
InRange(df, start_date, end_date) ==
    SelectSeq(df, LAMBDA row : /\ DateIdx(row.Date) >= DateIdx(start_date)
                               /\ DateIdx(row.Date) <= DateIdx(end_date))

Total(df, month) ==
    LET members == SelectSeq(df, LAMBDA row : StrFTime(row.Date) = month)
    IN  IF members = <<>> THEN Null ELSE Number(Sum(Column(members, "Value")))

\* The row of a month: Balance is Income - Expense of the pivoted cells, and
\* fill_null(0) then fills every null of the row.
SummaryRow(expense, income, month) ==
    LET Income  == Total(income, month)
        Expense == Total(expense, month)
        Balance == Minus(Income, Expense)
    IN  [Month |-> month, Income |-> FillNull(Income, 0).value,
         Expense |-> FillNull(Expense, 0).value,
         Balance |-> FillNull(Balance, 0).value]

\* The pivot has a column per Type that occurs in the range: without an
\* Income or an Expense row the expression of Balance finds no such column.
CalculateMonthlySummary(f) ==
    LET expense == InRange(f.df_spese, f.start_date, f.end_date)
        income  == InRange(f.df_entrate, f.start_date, f.end_date)
        months  == Sorted({ StrFTime(expense[k].Date) : k \in DOMAIN expense }
                          \cup { StrFTime(income[k].Date) : k \in DOMAIN income })
    IN  IF expense = <<>> \/ income = <<>>
        THEN [called |-> TRUE, raised |-> "ColumnNotFoundError", rows |-> <<>>]
        ELSE [called |-> TRUE, raised |-> "none",
              rows |-> [k \in DOMAIN months |-> SummaryRow(expense, income, months[k])]]

CallCalculateMonthlySummary ==
    /\ ~monthly_summary.called
    /\ monthly_summary' = CalculateMonthlySummary(finance)
    /\ UNCHANGED << finance, pc, ledger, ingest, settings, sheets, logs,
                    expense_dashboard, loading, entry_point, reloading, extraction,
                    updates, rate_chart >>

InitFinance ==
    /\ \E spese \in EntryTables, entrate \in EntryTables :
       \E start_date \in SummaryDates, end_date \in SummaryDates :
          /\ DateIdx(start_date) <= DateIdx(end_date)
          /\ finance = [df_spese |-> spese, df_entrate |-> entrate,
                        start_date |-> start_date, end_date |-> end_date]
    /\ monthly_summary = NoSummary
    /\ pc = "loaded"
    /\ NoLedger
    /\ NothingIngested
    /\ NoSettings
    /\ NoSheet
    /\ NoLogs
    /\ NoExpenses
    /\ NoLoading
    /\ NoRun
    /\ NoReloading
    /\ NoExtraction
    /\ NoSet
    /\ NoRate

NextFinance == CallCalculateMonthlySummary

SpecFinance == InitFinance /\ [][NextFinance]_vars

(***************************************************************************)
(* The caller edits the log between two runs: it adds a transaction,       *)
(* removes one, or changes the account or the amount of one.  The logs are *)
(* over an allocation and a savings account.                               *)
(***************************************************************************)
MaxEdited == 2

EditedAccounts ==
    { [Category |-> "Vacation", CategoryType |-> "Accantonamento"],
      [Category |-> "General",  CategoryType |-> "Risparmio"] }

EditedValues == {-1, 2}

EditedRecord ==
    { t \in SavingsRecord :
         /\ [Category |-> t.Category, CategoryType |-> t.CategoryType] \in EditedAccounts
         /\ t.Value \in EditedValues }

RemoveAt(df, pos) == SubSeq(df, 1, pos - 1) \o SubSeq(df, pos + 1, Len(df))

Add ==
    /\ Len(df_savings) < MaxEdited
    /\ \E t \in EditedRecord, pos \in 1..(Len(df_savings) + 1) :
          Load(InsertAt(df_savings, pos, t), "add", t)

Remove ==
    \E pos \in DOMAIN df_savings :
        Load(RemoveAt(df_savings, pos), "remove", df_savings[pos])

Change ==
    \E pos \in DOMAIN df_savings, t \in EditedRecord :
        /\ t.Date = df_savings[pos].Date
        /\ t # df_savings[pos]
        /\ Load([df_savings EXCEPT ![pos] = t], "change", t)

NextEdited ==
    \/ CalculateSavingsMetrics
    \/ CreateSavingsOverviewArea
    \/ Add
    \/ Remove
    \/ Change

SpecEdited == Init /\ [][NextEdited]_vars

(***************************************************************************)
(* DataWrangler.load_updated_file (src/src/DataWrangler.py), called again  *)
(* and again on one instance.  The Numbers file is the environment's: at   *)
(* each call it is missing, or holds one or two sheets, each without a     *)
(* table or with one of three tables.  Sheet names are sequences of        *)
(* character codes.  The transformations and the CSV export of a sheet,    *)
(* which do not touch skipped_rows, are taken to succeed.                  *)
(***************************************************************************)
MaxLoads == 2

\* "Uscite", "Entrate" and "Note".
Uscite == << 85, 115, 99, 105, 116, 101 >>

Entrate == << 69, 110, 116, 114, 97, 116, 101 >>

Note == << 78, 111, 116, 101 >>

DocNames == {Uscite, Entrate, Note}

\* str.lower() on the letters A to Z.
Lower(s) == [k \in DOMAIN s |-> IF s[k] \in 65..90 THEN s[k] + 32 ELSE s[k]]

\* sheet_mappings of the configuration: "uscite" and "entrate".
sheet_mappings ==
    { [key |-> Lower(Uscite), english_name |-> "expenses"],
      [key |-> Lower(Entrate), english_name |-> "income"] }

\* A table whose rows are all kept, one with a row that is skipped, and one
\* whose only row is skipped, so that no valid row is left.
TableKept == << << Text("Importo"), Text("Note") >>, << Text("x"), Text("x") >> >>

TableSkips == TableKept \o << << Text(""), Text(""), Text("x") >> >>

TableOnlySkipped ==
    << << Text("Importo"), Text("Note") >>, << Text(""), Text(""), Text("x") >> >>

DocTables == {<<>>, TableKept, TableSkips, TableOnlySkipped}

\* sheet.tables is empty, or its first table has these rows.
DocSheets == { [name |-> n, rows |-> t] : n \in DocNames, t \in DocTables }

Documents ==
    { d \in UNION { [1..n -> DocSheets] : n \in 1..2 } :
         \A i, j \in DOMAIN d : i # j => d[i].name # d[j].name }

SkippedRow(sheet_name, skipped) ==
    [sheet_name |-> sheet_name, row_index |-> skipped.row_index,
     row_data |-> skipped.row_data, none_count |-> skipped.none_count]

Named(sheet_name, skipped) ==
    [k \in DOMAIN skipped |-> SkippedRow(sheet_name, skipped[k])]

\* _extract_dataframes from the k-th sheet on: a sheet that is not a key of
\* the mapping or has no table is passed over, an exception of
\* _process_sheet_data ends the call, and the rows a sheet skipped have been
\* appended to self.skipped_rows by then.
RECURSIVE ExtractDataframes(_, _, _, _)
ExtractDataframes(doc, k, dfs, skipped) ==
    IF k > Len(doc) THEN [raised |-> "none", dfs |-> dfs, skipped |-> skipped]
    ELSE LET sheet   == doc[k]
             targets == { m \in sheet_mappings : m.key = Lower(sheet.name) }
         IN  IF targets = {} \/ sheet.rows = <<>>
             THEN ExtractDataframes(doc, k + 1, dfs, skipped)
             ELSE LET out == ProcessSheet(sheet.rows)
                      now == skipped \o Named(sheet.name, out.skipped_rows)
                  IN  IF out.error # NoError
                      THEN [raised |-> out.error.type, dfs |-> dfs, skipped |-> now]
                      ELSE ExtractDataframes(
                               doc, k + 1,
                               dfs \cup { m.english_name : m \in targets }, now)

\* load_updated_file: what it raises, the frames it read, the rows it skipped
\* and self.skipped_rows as it leaves it.
LoadUpdatedFile(doc, skipped_before) ==
    IF doc = NoDocument
    THEN [raised |-> "FileNotFoundError", dfs |-> {}, skipped |-> <<>>,
          skipped_rows |-> skipped_before]
    ELSE LET out == ExtractDataframes(doc, 1, {}, <<>>)
         IN  [raised |-> IF out.raised = "none" /\ out.dfs = {} THEN "ValueError"
                         ELSE out.raised,
              dfs |-> out.dfs, skipped |-> out.skipped,
              skipped_rows |-> skipped_before \o out.skipped]

CallLoadUpdatedFile ==
    /\ load_call.count < MaxLoads
    /\ \E doc \in Documents \cup {NoDocument} :
       \E out \in {LoadUpdatedFile(doc, skipped_rows)} :
          /\ document' = doc
          /\ skipped_rows' = out.skipped_rows
          /\ load_call' = [count |-> load_call.count + 1, raised |-> out.raised,
                           skipped |-> out.skipped, dfs |-> out.dfs]
    /\ UNCHANGED << data, valid_rows, sheet_df, sheet_error, pc, ledger, ingest,
                    settings, logs, expense_dashboard, loading,
                    entry_point, finance_dashboard, extraction, updates,
                    rate_chart >>

InitReloading ==
    /\ NoReloading
    /\ pc = "loaded"
    /\ NoLedger
    /\ NothingIngested
    /\ NoSettings
    /\ NoSheet
    /\ NoLogs
    /\ NoExpenses
    /\ NoLoading
    /\ NoRun
    /\ NoFinance
    /\ NoExtraction
    /\ NoSet
    /\ NoRate

NextReloading == CallLoadUpdatedFile

SpecReloading == InitReloading /\ [][NextReloading]_vars

(***************************************************************************)
(* DataWrangler._extract_dataframes of src/src/data_wrangler.py.  The      *)
(* mapping is a dict: its entries in insertion order, the keys distinct.   *)
(* On the tables of the documents below process_sheet_data (106-164) does  *)
(* what ProcessSheet does; the transformations and the CSV export of a     *)
(* sheet are taken to succeed.                                             *)
(***************************************************************************)
\* "spese", "Spese fisse", "Spese" and "SPESE FISSE".
spese == << 115, 112, 101, 115, 101 >>

SpeseFisse == << 83, 112, 101, 115, 101, 32, 102, 105, 115, 115, 101 >>

Spese == << 83, 112, 101, 115, 101 >>

SPESE_FISSE == << 83, 80, 69, 83, 69, 32, 70, 73, 83, 83, 69 >>

MappingEntries ==
    { [key |-> spese, english_name |-> "expenses"],
      [key |-> SpeseFisse, english_name |-> "fixed_expenses"],
      [key |-> Lower(Entrate), english_name |-> "income"] }

SheetMappings ==
    { m \in UNION { [1..n -> MappingEntries] : n \in 1..Cardinality(MappingEntries) } :
         \A i, j \in DOMAIN m : i # j => m[i] # m[j] }

NumbersNames == {Spese, SPESE_FISSE, Entrate, Note}

NumbersSheets ==
    { [name |-> n, rows |-> t] :
         n \in NumbersNames, t \in {<<>>, TableKept, TableOnlySkipped} }

NumbersDocuments ==
    { d \in UNION { [1..n -> NumbersSheets] : n \in 1..2 } :
         \A i, j \in DOMAIN d : i # j => d[i].name # d[j].name }

\* sub in s, for str.
Contains(s, sub) ==
    \E i \in 0..(Len(s) - Len(sub)) : SubSeq(s, i + 1, i + Len(sub)) = sub

\* The key next(...) finds: the first key of the mapping whose lower case
\* occurs in the lower-cased name of the sheet; 0 when there is none.
MatchingKey(mappings, sheet_name_lower) ==
    LET hits == { k \in DOMAIN mappings :
                    Contains(sheet_name_lower, Lower(mappings[k].key)) }
    IN  IF hits = {} THEN 0 ELSE CHOOSE k \in hits : \A h \in hits : k <= h

Store(dfs, english_name, sheet_name) ==
    [n \in DOMAIN dfs \cup {english_name} |->
        IF n = english_name THEN sheet_name ELSE dfs[n]]

\* The loop over doc.sheets from the k-th sheet on.
RECURSIVE ExtractLoop(_, _, _, _)
ExtractLoop(doc, mappings, k, acc) ==
    IF k > Len(doc) THEN acc
    ELSE LET sheet            == doc[k]
             sheet_name_lower == Lower(sheet.name)
             matching_key     == MatchingKey(mappings, sheet_name_lower)
         IN  IF ~\E j \in DOMAIN mappings : Lower(mappings[j].key) = sheet_name_lower
             THEN ExtractLoop(doc, mappings, k + 1, acc)
             ELSE IF matching_key = 0 \/ mappings[matching_key].key = <<>>
             THEN ExtractLoop(doc, mappings, k + 1, acc)
             ELSE IF sheet.rows = <<>>
             THEN ExtractLoop(doc, mappings, k + 1, acc)
             ELSE LET english_name == mappings[matching_key].english_name
                      out          == ProcessSheet(sheet.rows)
                  IN  IF out.error # NoError
                      THEN [acc EXCEPT !.raised = out.error.type]
                      ELSE ExtractLoop(
                               doc, mappings, k + 1,
                               [acc EXCEPT
                                   !.dfs = Store(@, english_name, sheet.name),
                                   !.processed =
                                       Append(@, [sheet |-> sheet.name,
                                                  english_name |-> english_name]),
                                   !.all_skipped_rows =
                                       @ \o Named(sheet.name, out.skipped_rows)])

ExtractDataframesByKey(n) ==
    ExtractLoop(n.sheets, n.sheet_mappings, 1, [NotExtracted EXCEPT !.called = TRUE])

CallExtractDataframes ==
    /\ ~extracted.called
    /\ extracted' = ExtractDataframesByKey(numbers)
    /\ UNCHANGED << numbers, pc, ledger, ingest, settings, sheets, logs,
                    expense_dashboard, loading, entry_point, finance_dashboard,
                    reloading, updates, rate_chart >>

InitExtraction ==
    /\ \E doc \in NumbersDocuments, mappings \in SheetMappings :
          numbers = [sheets |-> doc, sheet_mappings |-> mappings]
    /\ extracted = NotExtracted
    /\ pc = "loaded"
    /\ NoLedger
    /\ NothingIngested
    /\ NoSettings
    /\ NoSheet
    /\ NoLogs
    /\ NoExpenses
    /\ NoLoading
    /\ NoRun
    /\ NoFinance
    /\ NoReloading
    /\ NoSet
    /\ NoRate

NextExtraction == CallExtractDataframes

SpecExtraction == InitExtraction /\ [][NextExtraction]_vars

(***************************************************************************)
(* Config.set followed by Config.get (src/src/Config.py).  The keys and    *)
(* the configurations are those of Config.get above.                       *)
(***************************************************************************)
\* None, 7 and {}.
SetValues == {None, Leaf(7), Mapping(<<>>)}

\* d[k] = v
Put(items, k, v) == [x \in DOMAIN items \cup {k} |-> IF x = k THEN v ELSE items[x]]

\* for k in keys[:-1]: d = d.setdefault(k, {}); d[keys[-1]] = value.  Only a
\* dict has setdefault, and only a dict takes an item under a text key.
RECURSIVE SetItem(_, _, _)
SetItem(d, keys, value) ==
    IF Len(keys) = 1
    THEN IF d.kind # "dict" THEN [raised |-> "TypeError", config |-> d]
         ELSE [raised |-> "none", config |-> Mapping(Put(d.items, keys[1], value))]
    ELSE IF d.kind # "dict" THEN [raised |-> "AttributeError", config |-> d]
    ELSE LET child == IF Head(keys) \in DOMAIN d.items THEN d.items[Head(keys)]
                      ELSE Mapping(<<>>)
             out   == SetItem(child, Tail(keys), value)
         IN  IF out.raised # "none" THEN [raised |-> out.raised, config |-> d]
             ELSE [raised |-> "none",
                   config |-> Mapping(Put(d.items, Head(keys), out.config))]

ConfigSet(cfg, key, value) ==
    IF key = <<>> THEN [raised |-> "none", config |-> cfg]
    ELSE SetItem(cfg, Split(key), value)

Set ==
    /\ ~set_call.called
    /\ \E key \in Keys, value \in SetValues :
          \E out \in {ConfigSet(config, key, value)} :
             /\ config' = out.config
             /\ set_call' = [called |-> TRUE, key |-> key, value |-> value,
                             raised |-> out.raised]
    /\ UNCHANGED << got, pc, ledger, ingest, sheets, logs, expense_dashboard,
                    loading, entry_point, finance_dashboard, reloading,
                    extraction, rate_chart >>

\* The caller reads a key after a set that returned.
GetAfterSet ==
    /\ set_call.called
    /\ set_call.raised = "none"
    /\ ~got.called
    /\ Get

InitSet ==
    /\ config \in Configs
    /\ got = NoCall
    /\ set_call = NotSet
    /\ pc = "loaded"
    /\ NoLedger
    /\ NothingIngested
    /\ NoSheet
    /\ NoLogs
    /\ NoExpenses
    /\ NoLoading
    /\ NoRun
    /\ NoFinance
    /\ NoReloading
    /\ NoExtraction
    /\ NoRate

NextSet ==
    \/ Set
    \/ GetAfterSet

SpecSet == InitSet /\ [][NextSet]_vars

(***************************************************************************)
(* update_dashboard (src/src/dashboard/callbacks.py) and                   *)
(* ChartFactory.create_monthly_savings_rate (src/src/dashboard/charts.py). *)
(* A month is its number within one year: the 'YYYY-MM' texts of one year  *)
(* compare as these numbers do.  The datasets are sorted by Month with one *)
(* row per month, as the pipeline writes them.                             *)
(***************************************************************************)
MaxMonths == 3

RateMonths == 1..MaxMonths

Incomes == {0, 4}

TotalSavingsValues == {0, 1, 3}

Ascending(df) == \A i, j \in DOMAIN df : i < j => df[i].Month < df[j].Month

MonthlySummaries ==
    { df \in UNION { [1..n -> [Month : RateMonths, Income : Incomes]] : n \in 0..MaxMonths } :
         Ascending(df) }

SavingsMetricsFrames ==
    { df \in UNION { [1..n -> [Month : RateMonths, TotalSavings : TotalSavingsValues]] :
                        n \in 0..MaxMonths } :
         Ascending(df) }

\* df.filter((pl.col("Month") >= start_month) & (pl.col("Month") <= end_month))
FilterMonthlyDataset(df, start_month, end_month) ==
    LET InRangeOfMonths(row) == row.Month >= start_month /\ row.Month <= end_month
    IN  SelectSeq(df, InRangeOfMonths)

\* monthly_summary["Month"].min() of _determine_date_range; the summary is
\* not empty.
MinMonth(df) ==
    CHOOSE m \in { df[k].Month : k \in DOMAIN df } :
        \A k \in DOMAIN df : m <= df[k].Month

\* df_monthly_summary.join(df_savings_metrics, on="Month", how="inner") and
\* the filter on Income > 0.
Merged(df_monthly_summary, df_savings_metrics) ==
    LET Joins(row) ==
            /\ \E k \in DOMAIN df_savings_metrics : df_savings_metrics[k].Month = row.Month
            /\ row.Income > 0
        left == SelectSeq(df_monthly_summary, Joins)
    IN  [i \in DOMAIN left |->
            LET k == CHOOSE j \in DOMAIN df_savings_metrics :
                         df_savings_metrics[j].Month = left[i].Month
            IN  [Month |-> left[i].Month, Income |-> left[i].Income,
                 TotalSavings |-> df_savings_metrics[k].TotalSavings]]

\* The loop that fills monthly_savings_totals.
MonthlySavingsTotals(df_merged, df_savings_metrics) ==
    [i \in DOMAIN df_merged |->
        IF i = 1
        THEN LET UpToFirst(row) == row.Month <= df_merged[1].Month
                 all_savings == SelectSeq(df_savings_metrics, UpToFirst)
             IN  IF Len(all_savings) > 1
                 THEN df_merged[1].TotalSavings
                          - all_savings[Len(all_savings) - 1].TotalSavings
                 ELSE 0
        ELSE df_merged[i].TotalSavings - df_merged[i - 1].TotalSavings]

CreateMonthlySavingsRate(df_monthly_summary, df_savings_metrics) ==
    IF df_monthly_summary = <<>> \/ df_savings_metrics = <<>>
    THEN [NoFigure EXCEPT !.called = TRUE,
                          !.title = "Monthly Savings Rate - No Data Available",
                          !.df_savings_metrics = df_savings_metrics]
    ELSE LET df_merged == Merged(df_monthly_summary, df_savings_metrics)
         IN  IF df_merged = <<>>
             THEN [NoFigure EXCEPT !.called = TRUE,
                                   !.title = "Monthly Savings Rate - No Income Data",
                                   !.df_savings_metrics = df_savings_metrics]
             ELSE [called |-> TRUE,
                   title |-> "Monthly Savings Rate",
                   df_savings_metrics |-> df_savings_metrics,
                   months |-> [i \in DOMAIN df_merged |-> df_merged[i].Month],
                   monthly_savings_totals |->
                       MonthlySavingsTotals(df_merged, df_savings_metrics)]

\* update_dashboard: the summary of the selected months, the savings metrics
\* from min_month up to the selected end, and the chart drawn from them.
UpdateDashboard ==
    /\ ~savings_rate.called
    /\ selection.monthly_summary # <<>>
    /\ LET filtered_monthly_summary ==
               FilterMonthlyDataset(selection.monthly_summary,
                                    selection.start_month, selection.end_month)
           filtered_savings_metrics ==
               FilterMonthlyDataset(selection.savings_metrics,
                                    MinMonth(selection.monthly_summary),
                                    selection.end_month)
       IN  savings_rate' = CreateMonthlySavingsRate(filtered_monthly_summary,
                                                    filtered_savings_metrics)
    /\ UNCHANGED << selection, pc, ledger, ingest, settings, sheets, logs,
                    expense_dashboard, loading, entry_point, finance_dashboard,
                    reloading, extraction, updates >>

InitRate ==
    /\ \E summary \in MonthlySummaries, metrics \in SavingsMetricsFrames,
          start_month \in RateMonths, end_month \in RateMonths :
          /\ summary # <<>>
          /\ start_month <= end_month
          /\ selection = [monthly_summary |-> summary, savings_metrics |-> metrics,
                          start_month |-> start_month, end_month |-> end_month]
    /\ savings_rate = NoFigure
    /\ pc = "loaded"
    /\ NoLedger
    /\ NothingIngested
    /\ NoSettings
    /\ NoSheet
    /\ NoLogs
    /\ NoExpenses
    /\ NoLoading
    /\ NoRun
    /\ NoFinance
    /\ NoReloading
    /\ NoExtraction
    /\ NoSet

NextRate == UpdateDashboard

SpecRate == InitRate /\ [][NextRate]_vars

(***************************************************************************)
(* Vocabulary of the properties.  Months are compared by calendar          *)
(* position, sums are taken over sets of row numbers of the log.           *)
(***************************************************************************)
Returned == pc \in {"returned", "charted"}

Charted == pc = "charted"

\* The calendar month a month key names, and its position in the calendar.
KeyDate(key) ==
    [year  |-> 1000 * (key[1] - 48) + 100 * (key[2] - 48) + 10 * (key[3] - 48)
                  + (key[4] - 48),
     month |-> 10 * (key[6] - 48) + (key[7] - 48)]

MonthIndex(key) == LET d == KeyDate(key) IN 12 * d.year + d.month

MonthOf(t) == StrFTime(t.Date)

MonthsOfLog == {MonthOf(df_savings[k]) : k \in DOMAIN df_savings}

RECURSIVE SumOver(_)
SumOver(rows) ==
    IF rows = {} THEN 0
    ELSE LET k == CHOOSE x \in rows : TRUE
         IN  df_savings[k].Value + SumOver(rows \ {k})

RowsOfMonth(m) == LET d == KeyDate(m) IN {k \in DOMAIN df_savings : df_savings[k].Date = d}

Previous(table, k, column) == IF k = 1 THEN 0 ELSE table[k - 1][column]

ZeroRow == [TotalSavings |-> 0, TotalAllocated |-> 0, TotalSpent |-> 0]

\* The totals in force at month m in a metrics table: those of its latest row
\* not after m, zero when there is none.
InForce(table, m) ==
    LET upto == {k \in DOMAIN table : MonthIndex(table[k].Month) <= MonthIndex(m)}
    IN  IF upto = {} THEN ZeroRow
        ELSE LET k == CHOOSE x \in upto :
                         \A y \in upto :
                            MonthIndex(table[y].Month) <= MonthIndex(table[x].Month)
             IN  [TotalSavings |-> table[k].TotalSavings,
                  TotalAllocated |-> table[k].TotalAllocated,
                  TotalSpent |-> table[k].TotalSpent]

HasRow(table, m) == \E k \in DOMAIN table : table[k].Month = m

Inserted == last_edit.kind = "insert"

\* C1: for the worked example, in any order of its records, the metrics table
\* is exactly Jan (0, 100, 40) and Feb (20, 70, 40).
IsScenario ==
    /\ Len(df_savings) = Len(Scenario)
    /\ \E p \in Permutations(DOMAIN Scenario) :
          \A k \in DOMAIN Scenario : df_savings[k] = Scenario[p[k]]

C1_ScenarioMetrics ==
    (Returned /\ IsScenario) =>
        savings_metrics =
            << [Month |-> StrFTime(Jan), TotalSavings |-> 0, TotalAllocated |-> 100,
                TotalSpent |-> 40],
               [Month |-> StrFTime(Feb), TotalSavings |-> 20, TotalAllocated |-> 70,
                TotalSpent |-> 40] >>

C1_Witness == Returned /\ df_savings = Scenario /\ Len(savings_metrics) = 2

\* C2: TotalSavings never decreases from a month row to a later month row.
C2_TotalSavingsMonotone ==
    Returned =>
        \A j, k \in DOMAIN savings_metrics :
            \/ savings_metrics[j].TotalSavings <= savings_metrics[k].TotalSavings
            \/ MonthIndex(savings_metrics[j].Month) >= MonthIndex(savings_metrics[k].Month)

\* A later month holds only a negative savings record, after a month that saved.
C2_Witness ==
    /\ Returned
    /\ Len(savings_metrics) = 2
    /\ savings_metrics[1].TotalSavings > 0
    /\ \E k \in DOMAIN df_savings :
          /\ df_savings[k].CategoryType = "Risparmio"
          /\ df_savings[k].Value < 0
          /\ MonthOf(df_savings[k]) = savings_metrics[2].Month

\* C3: TotalSpent never decreases from a month row to a later month row.
C3_TotalSpentMonotone ==
    Returned =>
        \A j, k \in DOMAIN savings_metrics :
            \/ savings_metrics[j].TotalSpent <= savings_metrics[k].TotalSpent
            \/ MonthIndex(savings_metrics[j].Month) >= MonthIndex(savings_metrics[k].Month)

C3_Witness ==
    /\ Returned
    /\ Len(savings_metrics) = 2
    /\ savings_metrics[1].TotalSpent > 0
    /\ savings_metrics[2].TotalSpent > savings_metrics[1].TotalSpent

\* C4: TotalAllocated of a month row is that of the row before (0 for the first)
\* plus the month's positive allocation values minus the absolute value of the
\* sum of its negative allocation values; a withdrawal from an allocation added
\* to the log lowers TotalAllocated from its month on and changes no TotalSpent.
AllocationRows(m) ==
    {k \in RowsOfMonth(m) : df_savings[k].CategoryType = "Accantonamento"}

IsAllocationWithdrawal(t) == t.CategoryType = "Accantonamento" /\ t.Value < 0

C4_TotalAllocatedRule ==
    Returned =>
        /\ \A k \in DOMAIN savings_metrics :
              LET m       == savings_metrics[k].Month
                  added   == SumOver({r \in AllocationRows(m) : df_savings[r].Value > 0})
                  removed == SumOver({r \in AllocationRows(m) : df_savings[r].Value < 0})
              IN  savings_metrics[k].TotalAllocated =
                      Previous(savings_metrics, k, "TotalAllocated") + added - Abs(removed)
        /\ (Inserted /\ IsAllocationWithdrawal(last_edit.record)) =>
              \A k \in DOMAIN savings_metrics :
                  LET m      == savings_metrics[k].Month
                      before == InForce(prev_metrics, m)
                      since  == MonthIndex(m) >= MonthIndex(MonthOf(last_edit.record))
                  IN  /\ savings_metrics[k].TotalSpent = before.TotalSpent
                      /\ savings_metrics[k].TotalAllocated =
                            before.TotalAllocated
                              - (IF since THEN Abs(last_edit.record.Value) ELSE 0)

\* A withdrawal joins a month that already holds an allocation.
C4_Witness ==
    /\ Returned
    /\ Inserted
    /\ IsAllocationWithdrawal(last_edit.record)
    /\ HasRow(prev_metrics, MonthOf(last_edit.record))
    /\ InForce(prev_metrics, MonthOf(last_edit.record)).TotalAllocated > 0
    /\ InForce(savings_metrics, MonthOf(last_edit.record)).TotalAllocated
          < InForce(prev_metrics, MonthOf(last_edit.record)).TotalAllocated

\* C5: TotalSpent of a month row exceeds that of the row before by the absolute
\* value of the sum of the month's negative values whose category type is not
\* the allocation label; an outflow with an unrecognized category type added to
\* the log raises TotalSpent by its absolute value from its month on.
IsUnrecognizedOutflow(t) ==
    t.CategoryType \notin {"Risparmio", "Accantonamento"} /\ t.Value < 0

C5_TotalSpentRule ==
    Returned =>
        /\ \A k \in DOMAIN savings_metrics :
              LET m        == savings_metrics[k].Month
                  outflows == {r \in RowsOfMonth(m) :
                                  /\ df_savings[r].CategoryType # "Accantonamento"
                                  /\ df_savings[r].Value < 0}
              IN  savings_metrics[k].TotalSpent - Previous(savings_metrics, k, "TotalSpent")
                      = Abs(SumOver(outflows))
        /\ (Inserted /\ IsUnrecognizedOutflow(last_edit.record)) =>
              \A k \in DOMAIN savings_metrics :
                  LET m     == savings_metrics[k].Month
                      since == MonthIndex(m) >= MonthIndex(MonthOf(last_edit.record))
                  IN  savings_metrics[k].TotalSpent =
                          InForce(prev_metrics, m).TotalSpent
                            + (IF since THEN Abs(last_edit.record.Value) ELSE 0)

C5_Witness ==
    /\ Returned
    /\ Inserted
    /\ IsUnrecognizedOutflow(last_edit.record)
    /\ Len(savings_metrics) = 2
    /\ savings_metrics[2].TotalSpent > savings_metrics[1].TotalSpent

\* C6: a negative savings-type record added to a month that already has records
\* leaves the TotalSavings of every month row unchanged.
IsSavingsWithdrawal(t) == t.CategoryType = "Risparmio" /\ t.Value < 0

C6_NegativeSavingsInvisible ==
    (/\ Returned
     /\ Inserted
     /\ IsSavingsWithdrawal(last_edit.record)
     /\ HasRow(prev_metrics, MonthOf(last_edit.record))) =>
        /\ Len(savings_metrics) = Len(prev_metrics)
        /\ \A k \in DOMAIN savings_metrics :
              /\ savings_metrics[k].Month = prev_metrics[k].Month
              /\ savings_metrics[k].TotalSavings = prev_metrics[k].TotalSavings

C6_Witness ==
    /\ Returned
    /\ Inserted
    /\ IsSavingsWithdrawal(last_edit.record)
    /\ HasRow(prev_metrics, MonthOf(last_edit.record))
    /\ InForce(prev_metrics, MonthOf(last_edit.record)).TotalSavings > 0

\* C7: the metrics table has exactly one row for each distinct month that holds
\* a record, the rows are in strictly ascending calendar order, and a month
\* without records has no row.
C7_OneRowPerActiveMonth ==
    Returned =>
        /\ {savings_metrics[k].Month : k \in DOMAIN savings_metrics} = MonthsOfLog
        /\ Len(savings_metrics) = Cardinality(MonthsOfLog)
        /\ \A k \in 1..(Len(savings_metrics) - 1) :
              MonthIndex(savings_metrics[k].Month) < MonthIndex(savings_metrics[k + 1].Month)

\* December 2023 and February 2024 hold records, January 2024 holds none.
C7_Witness ==
    /\ Returned
    /\ Len(savings_metrics) = 2
    /\ savings_metrics[1].Month = StrFTime([year |-> 2023, month |-> 12])
    /\ savings_metrics[2].Month = StrFTime(Feb)
    /\ ~HasRow(savings_metrics, StrFTime(Jan))

\* C8 as stated: a zero-valued record added to the log leaves the metrics table
\* and the per-category balances unchanged.
IsZero(t) == t.Value = 0

C8_ZeroInsertionChangesNothing ==
    (Charted /\ Inserted /\ IsZero(last_edit.record)) =>
        /\ savings_metrics = prev_metrics
        /\ monthly_balances = prev_balances

\* The balance of a category in force at month m in a table of balances: that
\* of the latest month not after m, zero when there is none.
BalanceInForce(balances, m, c) ==
    LET upto == {x \in DOMAIN balances :
                    MonthIndex(x) <= MonthIndex(m) /\ c \in DOMAIN balances[x]}
    IN  IF upto = {} THEN 0
        ELSE LET x == CHOOSE u \in upto : \A y \in upto : MonthIndex(y) <= MonthIndex(u)
             IN  balances[x][c]

Totals(row) ==
    [TotalSavings |-> row.TotalSavings, TotalAllocated |-> row.TotalAllocated,
     TotalSpent |-> row.TotalSpent]

\* C8 (amended): a zero-valued record added to the log changes no total and no
\* balance.  Every month row carries the totals that were in force at its month
\* before, every (month, category) balance the balance that was in force
\* before; the tables are identical when the record's month (for the balances:
\* its month and category among the savings-type records) occurred before, and
\* otherwise gain exactly the entry of the record's month or category.
C8_ZeroInsertionKeepsTotals ==
    (Charted /\ Inserted /\ IsZero(last_edit.record)) =>
        LET t == last_edit.record
            m == MonthOf(t)
        IN  /\ {savings_metrics[k].Month : k \in DOMAIN savings_metrics}
                  = {prev_metrics[k].Month : k \in DOMAIN prev_metrics} \cup {m}
            /\ \A k \in DOMAIN savings_metrics :
                  Totals(savings_metrics[k]) = InForce(prev_metrics, savings_metrics[k].Month)
            /\ HasRow(prev_metrics, m) => savings_metrics = prev_metrics
            /\ DOMAIN monthly_balances =
                  DOMAIN prev_balances
                     \cup (IF t.CategoryType = "Risparmio" THEN {m} ELSE {})
            /\ \A x \in DOMAIN monthly_balances :
                  /\ DOMAIN monthly_balances[x] =
                        UNION {DOMAIN prev_balances[y] : y \in DOMAIN prev_balances}
                           \cup (IF t.CategoryType = "Risparmio" THEN {t.Category} ELSE {})
                  /\ \A c \in DOMAIN monthly_balances[x] :
                        monthly_balances[x][c] = BalanceInForce(prev_balances, x, c)
            /\ (\/ t.CategoryType # "Risparmio"
                \/ (m \in DOMAIN prev_balances /\ t.Category \in DOMAIN prev_balances[m]))
                  => monthly_balances = prev_balances

\* A zero-valued savings record opens a month after a month with totals.
C8_Witness ==
    /\ Charted
    /\ Inserted
    /\ IsZero(last_edit.record)
    /\ last_edit.record.CategoryType = "Risparmio"
    /\ ~HasRow(prev_metrics, MonthOf(last_edit.record))
    /\ InForce(prev_metrics, MonthOf(last_edit.record)).TotalSavings > 0
    /\ Len(savings_metrics) = Len(prev_metrics) + 1

\* C9: reordering the records of the log changes no row of the metrics table
\* and no per-category monthly balance.
C9_OrderIndependence ==
    (Charted /\ last_edit.kind = "permute") =>
        /\ savings_metrics = prev_metrics
        /\ monthly_balances = prev_balances

\* Two different savings records of one month change places.
C9_Witness ==
    /\ Charted
    /\ last_edit.kind = "permute"
    /\ Len(df_savings) = 2
    /\ MonthOf(df_savings[1]) = MonthOf(df_savings[2])
    /\ df_savings[1].CategoryType = "Risparmio"
    /\ df_savings[2].CategoryType = "Risparmio"
    /\ df_savings[1].Value > 0
    /\ df_savings[2].Value < 0

\* C10: a second run on the same unmodified log returns the same table; the
\* running totals start from zero on every call.
C10_Idempotent ==
    (Returned /\ last_edit.kind = "reload") => savings_metrics = prev_metrics

C10_Witness ==
    /\ Returned
    /\ last_edit.kind = "reload"
    /\ Len(savings_metrics) = 2
    /\ savings_metrics[1].TotalSavings > 0
    /\ savings_metrics[2].TotalSpent > 0

\* C11: for every savings category c and every month m of the chart, the
\* balance of c at m is the sum of the values of the savings-type records of c
\* dated in m or earlier, whatever the other categories hold.
DateIndex(d) == 12 * d.year + d.month

SavingsRowsUpTo(c, m) ==
    LET last == MonthIndex(m)
    IN  {k \in DOMAIN df_savings :
            /\ df_savings[k].CategoryType = "Risparmio"
            /\ df_savings[k].Category = c
            /\ DateIndex(df_savings[k].Date) <= last}

C11_PrefixSumPerCategory ==
    Charted =>
        \A m \in DOMAIN monthly_balances :
            \A c \in DOMAIN monthly_balances[m] :
                monthly_balances[m][c] = SumOver(SavingsRowsUpTo(c, m))

\* Two savings categories move in different months and end with different
\* balances.
C11_Witness ==
    /\ Charted
    /\ Cardinality(DOMAIN monthly_balances) = 2
    /\ \E m \in DOMAIN monthly_balances :
          /\ DOMAIN monthly_balances[m] = {"Vacation", "General"}
          /\ monthly_balances[m]["Vacation"] = 2
          /\ monthly_balances[m]["General"] = -1

\* C12 as stated: with a category moving in Jan and Mar only and another in
\* Feb, the balances show for Mar the sum of the Jan and Mar deltas of the
\* category and hold no entry for the category in Feb.
Delta(c, d) ==
    SumOver({k \in DOMAIN df_savings :
                /\ df_savings[k].CategoryType = "Risparmio"
                /\ df_savings[k].Category = c
                /\ df_savings[k].Date = d})

C13_ThreeWayClassification ==
    Returned =>
        LET df_processed == DfProcessed(df_savings)
        IN  \A k \in DOMAIN df_processed :
                LET row == df_processed[k]
                IN  /\ row.AllocationType = "Allocation"
                          <=> row.CategoryType = "Accantonamento"
                    /\ row.AllocationType = "Savings"
                          <=> row.CategoryType = "Risparmio"
                    /\ row.AllocationType = "Other"
                          <=> row.CategoryType \notin {"Accantonamento", "Risparmio"}

\* C14: on an empty savings log no error is raised, calculate_savings_metrics
\* returns an empty table with the columns Month, TotalSavings, TotalAllocated,
\* TotalSpent, and validate_savings returns an empty table with the columns of
\* a validated record.
C14_EmptyLogKeepsShape ==
    (raw_savings = <<>> /\ pc # "raw") =>
        /\ raised = "none"
        /\ df_validated.rows = <<>>
        /\ df_validated.columns = SavingsRecordFields
        /\ Returned =>
              /\ savings_metrics = <<>>
              /\ metrics_columns = {"Month", "TotalSavings", "TotalAllocated", "TotalSpent"}

\* C15: when exactly one record of the frame has a missing date, a missing
\* category type, a missing value or a non-numeric value, validation does not
\* abort, returns every valid record in order and reports the offending record
\* in the error list.
Offending(row) == Float(row.Value).raised # "none" \/ InvalidFields(row) # {}

ValidRecords(df) ==
    LET Valid(row) == ~Offending(row)
        kept       == SelectSeq(df, Valid)
    IN  [k \in DOMAIN kept |-> Dict(kept[k], Float(kept[k].Value).num)]

C15_OneBadRecordDoesNotAbort ==
    (/\ pc # "raw"
     /\ Cardinality({k \in DOMAIN raw_savings : Offending(raw_savings[k])}) = 1) =>
        /\ raised = "none"
        /\ df_validated.rows = ValidRecords(raw_savings)
        /\ Len(errors) = 1

\* C16: when the frame carries month keys whose lexical order is not their
\* calendar order, the aggregation run aborts with an error and emits no
\* metrics table.
NonChronologicalKeys ==
    \E j, k \in DOMAIN df_savings :
        /\ HasColumn(df_savings, "Month")
        /\ DateIndex(df_savings[j].Date) < DateIndex(df_savings[k].Date)
        /\ ~LexLess(df_savings[j].Month, df_savings[k].Month)

C16_NonChronologicalKeyAborts ==
    (Returned /\ NonChronologicalKeys) =>
        /\ raised # "none"
        /\ savings_metrics = <<>>

\* The dotted keys of a configuration: the paths through its nested mappings,
\* their steps joined with ".".
RECURSIVE Paths(_)
Paths(node) ==
    IF node.kind # "dict" THEN {}
    ELSE UNION { {<< k >>} \cup {<< k >> \o path : path \in Paths(node.items[k])} :
                 k \in DOMAIN node.items }

RECURSIVE NodeAt(_, _)
NodeAt(node, path) ==
    IF path = <<>> THEN node ELSE NodeAt(node.items[Head(path)], Tail(path))

Names == {<<97>>, <<98>>}

\* C17: Config.get raises KeyError for a key that is not in the configuration:
\* a missing top-level key, a missing nested key under an existing section, or
\* the empty key.
MissingKey(cfg, key) ==
    \/ key = <<>>
    \/ \E section \in Paths(cfg) \cup {<<>>}, name \in Names :
          /\ NodeAt(cfg, section).kind = "dict"
          /\ name \notin DOMAIN NodeAt(cfg, section).items
          /\ key = Join(section \o << name >>)

C17_MissingKeyRaisesKeyError ==
    (got.called /\ MissingKey(config, got.key)) => got.raised = "KeyError"

\* C18: for a dotted key k1.k2...kn whose every step exists in the nested
\* configuration, Config.get returns the value reached by descending the
\* nested mappings along k1, ..., kn.
C18_NestedKeyReturnsValue ==
    got.called =>
        \A path \in Paths(config) :
            got.key = Join(path) =>
                /\ got.raised = "none"
                /\ got.value = NodeAt(config, path)

\* The key a.a.b is looked up three levels deep, with a default at hand.
C18_Witness ==
    /\ got.called
    /\ got.key = <<97, Dot, 97, Dot, 98>>
    /\ got.default = Leaf(0)
    /\ got.value = Leaf(3)

\* C19: sheet processing raises ValueError and produces no frame when the
\* sheet data is empty ("No data found"), when a header cell is None
\* ("Invalid or missing column headers"), and when the header is valid but no
\* data row follows it ("No data rows found").
Processed == pc = "processed"

HeaderHasNone == data # <<>> /\ \E k \in DOMAIN data[1] : data[1][k].tag = "None"

HeaderOnly == Len(data) = 1 /\ data[1] # <<>> /\ ~HeaderHasNone

C19_SheetErrors ==
    Processed =>
        /\ data = <<>> => sheet_error = ValueError("No data found")
        /\ HeaderHasNone => sheet_error = ValueError("Invalid or missing column headers")
        /\ HeaderOnly => sheet_error = ValueError("No data rows found")
        /\ (data = <<>> \/ HeaderHasNone \/ HeaderOnly) =>
              /\ sheet_df = NoFrame
              /\ valid_rows = <<>>

\* A header with a None cell, followed by a data row that is full.
C19_Witness ==
    /\ Processed
    /\ HeaderHasNone
    /\ Len(data) = 2
    /\ \A k \in DOMAIN data[2] : ~IsEmptyCell(data[2][k])
    /\ sheet_error = ValueError("Invalid or missing column headers")
    /\ sheet_df = NoFrame

\* C20: under a valid header of n columns a data row is kept if and only if
\* it is not entirely empty, its date cell is non-empty when the header has a
\* date column, and at most floor(n/2) of its n cells are empty once it is
\* padded or truncated to n cells; the kept rows are those, in order, each
\* with exactly n cells, and an entirely empty row is never recorded as
\* skipped.
Filtered == Processed /\ Len(data) > 1 /\ data[1] # <<>> /\ ~HeaderHasNone

EntirelyEmpty(row) == \A k \in DOMAIN row : row[k] \in {NoneCell, Text("")}

DateCellFilled(row) ==
    \A k \in DOMAIN data[1] :
        data[1][k].text \in {"Data", "Date", "Datum"} =>
            k <= Len(row) /\ row[k] \notin {NoneCell, Text("")}

EmptyCellsWithin(row, n) ==
    Cardinality({k \in 1..n : k > Len(row) \/ row[k] \in {NoneCell, Text("")}})

Kept(row) ==
    /\ ~EntirelyEmpty(row)
    /\ DateCellFilled(row)
    /\ EmptyCellsWithin(row, Len(data[1])) <= Len(data[1]) \div 2

C20_RowFilter ==
    Filtered =>
        LET n    == Len(data[1])
            kept == SelectSeq(Tail(data), Kept)
        IN  /\ Len(valid_rows) = Len(kept)
            /\ \A r \in DOMAIN valid_rows :
                  /\ Len(valid_rows[r]) = n
                  /\ \A k \in 1..n :
                        valid_rows[r][k] =
                            IF k <= Len(kept[r]) THEN kept[r][k] ELSE NoneCell
            /\ \A k \in DOMAIN skipped_rows : ~EntirelyEmpty(skipped_rows[k].row_data)

\* Under a header of two columns with the date second: a row of three cells
\* is cut to two and kept with one of them empty, an entirely empty row leaves
\* no trace.
C20_Witness ==
    /\ Filtered
    /\ Len(data) = 3
    /\ data[1] = << Text("Importo"), Text("Data") >>
    /\ data[2] = << Text(""), Text("x"), Text("x") >>
    /\ data[3] = << NoneCell, Text("") >>
    /\ valid_rows = << << Text(""), Text("x") >> >>
    /\ skipped_rows = <<>>

(***************************************************************************)
(* Loggers.                                                                *)
(***************************************************************************)
CreateLoggerReturned == log_call.op = "create_logger" /\ log_call.raised = "none"

\* C21: when create_logger has returned, whatever calls of create_logger and
\* whatever handlers added by other code came before on that logger name, the
\* logger has exactly one handler, the file handler this call made, and does
\* not propagate.
C21_OneHandlerAfterCreate ==
    CreateLoggerReturned =>
        /\ logging[log_call.name].handlers = << log_call.handler >>
        /\ logging[log_call.name].propagate = FALSE

\* The call found two handlers on the logger: one of a call before and one
\* added by other code.
C21_Witness ==
    /\ CreateLoggerReturned
    /\ log_call.before = 2
    /\ log_call.count = 3

(***************************************************************************)
(* Expense aggregation.                                                    *)
(***************************************************************************)
YearMonths == { [year |-> expenses[k].Date.year, month |-> expenses[k].Date.month] :
                   k \in DOMAIN expenses }

\* The weeks, Monday to Sunday, counted from 1 January 2024.
Weeks == { (Ordinal(expenses[k].Date) - 1) \div 7 : k \in DOMAIN expenses }

\* C22: the table returned for 'monthly' has exactly the columns Period and
\* Total and at most one row per distinct year-month of the input, and the
\* table returned for 'weekly' at most one row per distinct week.
C22_PeriodTotalPerPeriod ==
    /\ aggregated.frequency = "monthly" =>
          /\ aggregated.columns = << "Period", "Total" >>
          /\ Len(aggregated.rows) <= Cardinality(YearMonths)
    /\ aggregated.frequency = "weekly" =>
          /\ aggregated.columns = << "Period", "Total" >>
          /\ Len(aggregated.rows) <= Cardinality(Weeks)

(***************************************************************************)
(* Loading.                                                                *)
(***************************************************************************)
CacheLoads(name) ==
    sources.raw_paths = "dict" /\ sources.cache[name] = "readable"

\* C23: when the Numbers file loads, load_data returns the frames read from
\* it; when it does not, load_data turns to the caches and raises ValueError
\* exactly when the expenses cache or the income cache cannot be loaded,
\* whatever the savings cache.
C23_NumbersElseCaches ==
    raw_dfs.called =>
        /\ sources.numbers = "loads" =>
              /\ raw_dfs.raised = "none"
              /\ raw_dfs.frames = [name \in FrameNames |-> "numbers"]
        /\ sources.numbers = "raises" =>
              /\ raw_dfs.raised \in {"none", "ValueError"}
              /\ raw_dfs.raised = "ValueError" <=>
                    ~CacheLoads("expenses") \/ ~CacheLoads("income")
              /\ raw_dfs.raised = "none" =>
                    \A name \in DOMAIN raw_dfs.frames : raw_dfs.frames[name] = "cache"

(***************************************************************************)
(* Exit code.                                                              *)
(***************************************************************************)
ClaimedStages ==
    {"configuration", "load_data", "process_data", "generate_all_datasets", "dashboard"}

\* C24: main returns 0 only if the configuration load, the data load, the
\* processing, the generation of the visualization datasets and the start of
\* the dashboard all completed without error, and returns 1 whenever one of
\* them raised.
C24_ExitCodeTellsEveryStage ==
    exit.returned =>
        /\ exit.code = 0 => ClaimedStages \subseteq exit.completed
        /\ exit.raised \cap ClaimedStages # {} => exit.code = 1

(***************************************************************************)
(* Monthly summary.                                                        *)
(***************************************************************************)
\* C25: in every month row of the summary Balance is Income minus Expense,
\* the side of which the month has no row in the range counting as 0.
C25_BalanceIsIncomeMinusExpense ==
    \A k \in DOMAIN monthly_summary.rows :
        LET row == monthly_summary.rows[k]
        IN  row.Balance = row.Income - row.Expense

(***************************************************************************)
(* Edits do not reach back.                                                *)
(***************************************************************************)
Edited == last_edit.kind \in {"add", "remove", "change"}

RowsBefore(table, m) ==
    { table[k] : k \in { x \in DOMAIN table : MonthIndex(table[x].Month) < MonthIndex(m) } }

\* C26: after a transaction dated in month m was added, removed or changed,
\* the metrics rows of the months earlier than m are the rows the log before
\* the edit gave: none is added, none is dropped, none has another total.
C26_EarlierMonthsUnchanged ==
    (Returned /\ Edited) =>
        RowsBefore(savings_metrics, MonthOf(last_edit.record))
            = RowsBefore(prev_metrics, MonthOf(last_edit.record))

\* A transaction of the last month is removed from a log that has an earlier
\* month with totals, and the table changes.
C26_Witness ==
    /\ Returned
    /\ last_edit.kind = "remove"
    /\ RowsBefore(savings_metrics, MonthOf(last_edit.record)) # {}
    /\ savings_metrics # prev_metrics

(***************************************************************************)
(* Skipped rows across calls.                                              *)
(***************************************************************************)
\* C27: after a call of load_updated_file, whatever calls came before on the
\* instance and whether or not the call failed part-way, skipped_rows holds
\* exactly the rows skipped during this call, each of them once.
C27_SkippedRowsOfLastCall ==
    load_call.count > 0 => skipped_rows = load_call.skipped

(***************************************************************************)
(* Sheet names and mapping keys.                                           *)
(***************************************************************************)
\* The standardized names the mapping assigns to the keys that equal the
\* name of the sheet when case is ignored.
AssignedNames(sheet_name) ==
    { numbers.sheet_mappings[k].english_name :
         k \in { j \in DOMAIN numbers.sheet_mappings :
                    Lower(numbers.sheet_mappings[j].key) = Lower(sheet_name) } }

\* C28: every sheet that was processed is stored under the standardized name
\* the mapping assigns to the key that equals the sheet's name when case is
\* ignored, also when another key of the mapping occurs inside that name.
C28_StoredUnderTheEqualKey ==
    \A k \in DOMAIN extracted.processed :
        AssignedNames(extracted.processed[k].sheet)
            = { extracted.processed[k].english_name }

(***************************************************************************)
(* Config.set and the read that follows it.                                *)
(***************************************************************************)
\* C29: whatever the configuration holds, Config.set of a non-empty key
\* returns without raising, and a Config.get of that key after it returns
\* the value that was set.
C29_SetThenGet ==
    set_call.called /\ set_call.key # <<>> =>
        /\ set_call.raised = "none"
        /\ got.called /\ got.key = set_call.key =>
               got.raised = "none" /\ got.value = set_call.value

(***************************************************************************)
(* The savings attributed to the months of the savings-rate chart.         *)
(***************************************************************************)
\* The rows of the savings metrics given to the chart.
MetricsRows == savings_rate.df_savings_metrics

\* The amount the month of row k of the metrics saved: TotalSavings of the
\* row minus TotalSavings of the row before it, 0 for the first row.
SavedInRow(k) ==
    IF k = 1 THEN 0
    ELSE MetricsRows[k].TotalSavings - MetricsRows[k - 1].TotalSavings

\* C30: the amount the chart attributes to each displayed month is
\* TotalSavings of that month minus TotalSavings of the month just before it
\* in the savings metrics, and 0 when the metrics have no month before it.
C30_AmountIsGrowthOverPrecedingMonth ==
    \A i \in DOMAIN savings_rate.months :
        \A k \in DOMAIN MetricsRows :
            MetricsRows[k].Month = savings_rate.months[i] =>
                savings_rate.monthly_savings_totals[i] = SavedInRow(k)

====
